---- MODULE Spec2Model ----
(***************************************************************************)
(* SnowID: lock-free generation of 64-bit time-sorted identifiers.         *)
(*                                                                         *)
(* The model follows src/src/generator/generate.rs (generate, the fast     *)
(* path helpers and generate_slow_path), src/src/generator/state.rs (the   *)
(* packed state word), src/src/generator/mod.rs (construction, now_ms,     *)
(* wait_next_millis, ID assembly), src/src/config/mod.rs (bit layout) and  *)
(* src/src/extractor.rs (field extraction).                                *)
(*                                                                         *)
(* Every access to shared memory or to the clock is one step of a thread:  *)
(* the clock read, the load of the state word, the compare-exchange.  The  *)
(* compare-exchange is the weak one: it may fail although the state word   *)
(* still holds the expected value.                                         *)
(***************************************************************************)
EXTENDS Integers, Naturals, Sequences, FiniteSets, TLC

(***************************************************************************)
(* Bounds of the model.                                                    *)
(***************************************************************************)
\* Threads calling generate(); thread ids are 1..NThreads.
NThreads == 2
\* Clock readings (milliseconds since the epoch) range over 0..MaxClock.
MaxClock == 2
\* generate() calls begun in one behaviour, over all threads.
MaxCalls == 2

Threads == 1..NThreads
\* Two generator instances built on the same configuration.
Gens == {1, 2}

(***************************************************************************)
(* Program constants.                                                      *)
(***************************************************************************)
TIMESTAMP_BITS == 42
TOTAL_NODE_AND_SEQUENCE_BITS == 22
SEQ_BITS == 16
MAX_BACKOFF_MS == 100
MIN_NODE_BITS == 6
MAX_NODE_BITS == 16
DEFAULT_NODE_BITS == 10
MAX_BASE62_LEN == 11

(***************************************************************************)
(* Unsigned integer arithmetic on the values the model reaches.  All       *)
(* values stay below 2^31, so a u64 operation never wraps here; the        *)
(* operators still compute bit by bit, so that overlapping fields show.    *)
(***************************************************************************)
Pow2(n) == 2 ^ n

Shl(x, n) == x * Pow2(n)

Shr(x, n) == x \div Pow2(n)

RECURSIVE BitAnd(_, _)
BitAnd(a, b) ==
    IF a = 0 \/ b = 0 THEN 0
    ELSE (IF a % 2 = 1 /\ b % 2 = 1 THEN 1 ELSE 0) + 2 * BitAnd(a \div 2, b \div 2)

RECURSIVE BitOr(_, _)
BitOr(a, b) ==
    IF a = 0 THEN b
    ELSE IF b = 0 THEN a
    ELSE (IF a % 2 = 1 \/ b % 2 = 1 THEN 1 ELSE 0) + 2 * BitOr(a \div 2, b \div 2)

\* x & ((1 << bits) - 1).  A mask of 31 bits or more keeps every value of the
\* model whole.
MaskLow(x, bits) == IF bits >= 31 THEN x ELSE x % Pow2(bits)

(***************************************************************************)
(* The packed state word (generator/state.rs): timestamp in the upper 48   *)
(* bits, sequence in the lower 16.                                         *)
(***************************************************************************)
SEQ_MASK == Pow2(SEQ_BITS) - 1

State_new(timestamp, sequence) == BitOr(Shl(timestamp, SEQ_BITS), sequence)

State_timestamp(raw) == Shr(raw, SEQ_BITS)

State_sequence(raw) == BitAnd(raw, SEQ_MASK)

\* The (timestamp, sequence) pair a raw state word stands for.
Pair(raw) == <<State_timestamp(raw), State_sequence(raw)>>

\* Lexicographic order on (timestamp, sequence) pairs.
PairLess(p, q) == p[1] < q[1] \/ (p[1] = q[1] /\ p[2] < q[2])

(***************************************************************************)
(* Configuration (config/mod.rs, config/builder.rs).  A configuration is   *)
(* a record [node_bits, spin_enabled, spin_loops, spin_yield_every].       *)
(***************************************************************************)
\* Mutant: the mask is 1 << bits.
calculate_mask_power(bits) == MaskLow(Pow2(bits), 16)

\* ((1u32 << bits) - 1) as u16
calculate_mask(bits) == MaskLow(Pow2(bits) - 1, 16)

sequence_bits(cfg) == TOTAL_NODE_AND_SEQUENCE_BITS - cfg.node_bits

timestamp_shift(cfg) == TOTAL_NODE_AND_SEQUENCE_BITS

node_shift(cfg) == sequence_bits(cfg)

node_mask(cfg) == calculate_mask(cfg.node_bits)

sequence_mask(cfg) == calculate_mask(sequence_bits(cfg))

max_node_id(cfg) == node_mask(cfg)

max_sequence_id(cfg) == sequence_mask(cfg)

\* SnowIDConfigBuilder::node_bits accepts exactly the widths 6..16.
ValidNodeBits == MIN_NODE_BITS..MAX_NODE_BITS

(***************************************************************************)
(* ID assembly and field extraction.                                       *)
(***************************************************************************)
\* Mutant: the timestamp is not shifted above the node and sequence fields.
create_snowid_unshifted(cfg, node_prefix, timestamp, sequence) ==
    BitOr(BitOr(MaskLow(timestamp, TIMESTAMP_BITS), node_prefix), sequence)

\* ((timestamp & ts_mask) << ts_shift) | node_prefix | sequence
create_snowid_fast(cfg, node_prefix, timestamp, sequence) ==
    BitOr(BitOr(Shl(MaskLow(timestamp, TIMESTAMP_BITS), timestamp_shift(cfg)),
                node_prefix),
          sequence)

Extract_timestamp(cfg, id) == MaskLow(Shr(id, timestamp_shift(cfg)), TIMESTAMP_BITS)

Extract_node(cfg, id) == BitAnd(Shr(id, node_shift(cfg)), node_mask(cfg))

Extract_sequence(cfg, id) == BitAnd(id, sequence_mask(cfg))

\* Mutant: the node field is not masked.
decompose_node_unmasked(cfg, id) ==
    <<MaskLow(Shr(id, timestamp_shift(cfg)), TIMESTAMP_BITS),
      Shr(id, node_shift(cfg)),
      BitAnd(id, sequence_mask(cfg))>>

\* SnowIDExtractor::decompose: (timestamp, node, sequence)
decompose(cfg, id) ==
    <<MaskLow(Shr(id, timestamp_shift(cfg)), TIMESTAMP_BITS),
      BitAnd(Shr(id, node_shift(cfg)), node_mask(cfg)),
      BitAnd(id, sequence_mask(cfg))>>

(***************************************************************************)
(* Base62 (base62.rs).  A u64 is four 16-bit limbs, most significant       *)
(* first, so that the whole 64-bit range and its overflow are computed.  A *)
(* string is a sequence of characters (code points); its bytes are its     *)
(* UTF-8 encoding.                                                         *)
(***************************************************************************)
Limb == Pow2(16)

u64_zero == <<0, 0, 0, 0>>

\* A value below 2^31 as a u64, and back.
u64_from(n) == <<0, 0, n \div Limb, n % Limb>>

u64_to_int(x) == x[3] * Limb + x[4]

\* id / d and id % d, for a divisor below 2^15.
u64_divmod(x, d) ==
    LET c1 == x[1]
        c2 == (c1 % d) * Limb + x[2]
        c3 == (c2 % d) * Limb + x[3]
        c4 == (c3 % d) * Limb + x[4]
    IN [q |-> <<c1 \div d, c2 \div d, c3 \div d, c4 \div d>>, r |-> c4 % d]

\* u64::checked_mul by a factor below 2^15: none on overflow.
u64_checked_mul(x, k) ==
    LET p4 == x[4] * k
        p3 == x[3] * k + (p4 \div Limb)
        p2 == x[2] * k + (p3 \div Limb)
        p1 == x[1] * k + (p2 \div Limb)
    IN IF p1 >= Limb THEN [some |-> FALSE, val |-> u64_zero]
       ELSE [some |-> TRUE, val |-> <<p1, p2 % Limb, p3 % Limb, p4 % Limb>>]

\* u64::checked_add of a value below 2^16.
u64_checked_add(x, v) ==
    LET s4 == x[4] + v
        s3 == x[3] + (s4 \div Limb)
        s2 == x[2] + (s3 \div Limb)
        s1 == x[1] + (s2 \div Limb)
    IN IF s1 >= Limb THEN [some |-> FALSE, val |-> u64_zero]
       ELSE [some |-> TRUE, val |-> <<s1, s2 % Limb, s3 % Limb, s4 % Limb>>]

u64_max == <<Limb - 1, Limb - 1, Limb - 1, Limb - 1>>

\* a < b on u64 values.
u64_less(a, b) ==
    \E k \in 1..4 : a[k] < b[k] /\ \A j \in 1..(k - 1) : a[j] = b[j]

\* Mutant: the multiplication wraps at 2^64.
u64_wrapping_mul(x, k) ==
    LET p4 == x[4] * k
        p3 == x[3] * k + (p4 \div Limb)
        p2 == x[2] * k + (p3 \div Limb)
        p1 == x[1] * k + (p2 \div Limb)
    IN <<p1 % Limb, p2 % Limb, p3 % Limb, p4 % Limb>>

\* u64::saturating_mul by a factor below 2^15.
u64_saturating_mul(x, k) ==
    LET product == u64_checked_mul(x, k) IN
    IF product.some THEN product.val ELSE u64_max

\* b"0123456789ABCDEFGHIJKLMNOPQRSTUVWXYZabcdefghijklmnopqrstuvwxyz"
BASE62_CHARS ==
    [i \in 1..62 |-> IF i <= 10 THEN 47 + i ELSE IF i <= 36 THEN 54 + i ELSE 60 + i]

\* map[c] = i for every character of BASE62_CHARS, -1 elsewhere.
DECODE_MAP ==
    [c \in 0..255 |->
        IF \E i \in 1..62 : BASE62_CHARS[i] = c
        THEN (CHOOSE i \in 1..62 : BASE62_CHARS[i] = c) - 1
        ELSE -1]

\* str::as_bytes: the UTF-8 encoding of one character.
utf8_bytes(c) ==
    IF c < 128 THEN <<c>>
    ELSE IF c < 2048 THEN <<192 + (c \div 64), 128 + (c % 64)>>
    ELSE <<224 + (c \div 4096), 128 + ((c \div 64) % 64), 128 + (c % 64)>>

RECURSIVE as_bytes(_)
as_bytes(str) ==
    IF str = <<>> THEN <<>> ELSE utf8_bytes(Head(str)) \o as_bytes(Tail(str))

\* String::from_utf8_lossy of bytes that are all ASCII.
from_utf8_lossy(bytes) == [k \in 1..Len(bytes) |-> IF bytes[k] < 128 THEN bytes[k] ELSE 65533]

\* Mutant: the digits are written from the front of the buffer.
RECURSIVE encode_loop_forward(_, _, _)
encode_loop_forward(id, position, buffer) ==
    IF id # u64_zero /\ position > 0
    THEN LET dm == u64_divmod(id, 62)
         IN encode_loop_forward(dm.q, position - 1,
                [buffer EXCEPT ![MAX_BASE62_LEN - position + 1] = BASE62_CHARS[dm.r + 1]])
    ELSE [buffer |-> buffer, position |-> 0]

\* while id > 0 && position > 0 { position -= 1; buffer[position] = ...; id /= 62 }
\* (the model's buffer is indexed from 1)
RECURSIVE encode_loop(_, _, _)
encode_loop(id, position, buffer) ==
    IF id # u64_zero /\ position > 0
    THEN LET dm == u64_divmod(id, 62)
         IN encode_loop(dm.q, position - 1,
                        [buffer EXCEPT ![position] = BASE62_CHARS[dm.r + 1]])
    ELSE [buffer |-> buffer, position |-> position]

encode(id) ==
    IF id = u64_zero THEN <<48>>
    ELSE LET done == encode_loop(id, MAX_BASE62_LEN, [k \in 1..MAX_BASE62_LEN |-> 0])
         IN from_utf8_lossy(SubSeq(done.buffer, done.position + 1, MAX_BASE62_LEN))

DecodeOk(val) == [ok |-> TRUE, val |-> val, err |-> <<>>]

DecodeErr(err) == [ok |-> FALSE, val |-> u64_zero, err |-> err]

\* for &c in encoded.as_bytes() { ... }
RECURSIVE decode_loop(_, _, _)
decode_loop(bytes, k, result) ==
    IF k > Len(bytes) THEN DecodeOk(result)
    ELSE LET value == DECODE_MAP[bytes[k]] IN
         IF value = -1 THEN DecodeErr(<<"InvalidCharacter", bytes[k]>>)
         ELSE LET mul == u64_checked_mul(result, 62) IN
              IF ~mul.some THEN DecodeErr(<<"Overflow">>)
              ELSE LET add == u64_checked_add(mul.val, value) IN
                   IF ~add.some THEN DecodeErr(<<"Overflow">>)
                   ELSE decode_loop(bytes, k + 1, add.val)

decode(encoded) ==
    IF encoded = <<>> THEN DecodeErr(<<"EmptyString">>)
    ELSE decode_loop(as_bytes(encoded), 1, u64_zero)

\* let next = current.saturating_mul(2);
\* if next > MAX_BACKOFF_MS { MAX_BACKOFF_MS } else { next }
next_backoff(current) ==
    LET next == u64_saturating_mul(current, 2) IN
    IF u64_less(u64_from(MAX_BACKOFF_MS), next) THEN u64_from(MAX_BACKOFF_MS) ELSE next

\* next_backoff applied to a backoff the model holds as a number.
doubled_backoff(backoff_ms) == u64_to_int(next_backoff(u64_from(backoff_ms)))

(***************************************************************************)
(* State.                                                                  *)
(***************************************************************************)
VARIABLES
    config,   \* the configuration both generators are built on
    node_id,  \* node_id[g]: the node of generator g
    state,    \* state[g]: the atomic state word of generator g (raw)
    clock,    \* clock[g]: what now_ms() of generator g returns at this instant
    holds,    \* holds[t]: the generators thread t has a reference to
    th,       \* th[t]: position and locals of thread t
    issued    \* the IDs returned so far, in the order of their successful CAS

vars == <<config, node_id, state, clock, holds, th, issued>>

\* Spin loops of the configurations the model builds (0 or MaxSpinLoops).
MaxSpinLoops == 1
\* Timestamp of a generator that starts with part of a millisecond used up.
AgedTimestamp == 1

\* Fields precomputed by with_config.
max_seq == max_sequence_id(config)

\* Mutant: the node is shifted by the node width, not the sequence width.
node_prefix_by_node_bits(g) == Shl(node_id[g], config.node_bits)

node_prefix(g) == Shl(node_id[g], node_shift(config))

\* Mutant: the clock is read one millisecond late.
now_ms_late(g) == IF clock[g] > 0 THEN clock[g] - 1 ELSE 0

\* now_ms(): wall clock minus the epoch.
now_ms(g) == clock[g]

\* Mutant: the ID carries the sequence the call observed, not the one its
\* CAS installed.
assemble_id_observed(g, timestamp, sequence) ==
    create_snowid_fast(config, node_prefix(g), timestamp,
                       IF sequence = 0 THEN 0 ELSE sequence - 1)

assemble_id(g, timestamp, sequence) ==
    create_snowid_fast(config, node_prefix(g), timestamp, sequence)

IdleThread(g) ==
    [pc |-> "idle", gen |-> g, now |-> 0, current |-> 0,
     from_timestamp |-> 0, i |-> 0,
     began |-> 0, invoked |-> 0, behind |-> -1, exhausted |-> -1]

\* The builder's settings: any valid node_bits; spinning enabled with
\* MaxSpinLoops loops, disabled, or enabled with no loops.
Configs(widths) ==
    {[node_bits |-> nb, spin_enabled |-> sp[1], spin_loops |-> sp[2],
      spin_yield_every |-> 0] :
        nb \in widths,
        sp \in {<<TRUE, MaxSpinLoops>>, <<FALSE, MaxSpinLoops>>, <<TRUE, 0>>}}

\* Node widths of the specification of concurrent calls: the narrowest and
\* the widest.
CoreNodeBits == {MIN_NODE_BITS, MAX_NODE_BITS}

\* SnowID::with_config leaves the state word at (0,0).  A generator may also
\* have served sequential calls before the threads of the model start: it
\* then holds a published pair close to the end of a millisecond.
StartStates(cfg) ==
    {State_new(0, 0)}
    \cup {State_new(AgedTimestamp, s) :
            s \in {max_sequence_id(cfg) - 1, max_sequence_id(cfg)}}

InitCommon(widths) ==
    /\ config \in Configs(widths)
    /\ state \in [Gens -> StartStates(config)]
    /\ clock = [g \in Gens |-> 0]
    /\ issued = <<>>

\* All threads share generator 1; generator 2 is built and left alone.
Init ==
    /\ InitCommon(CoreNodeBits)
    /\ node_id \in [Gens -> {0, 1, max_node_id(config)}]
    /\ node_id[1] # 1 /\ node_id[2] = 1
    /\ state[2] = State_new(0, 0)
    /\ holds = [t \in Threads |-> {1}]
    /\ th = [t \in Threads |-> IdleThread(1)]

\* One thread drives two generators of different nodes, one call at a time,
\* under every node width the builder accepts.
InitNodes ==
    /\ InitCommon(ValidNodeBits)
    /\ config.spin_enabled /\ config.spin_loops > 0
    /\ node_id \in [Gens -> {0, 1, max_node_id(config)}]
    /\ node_id[2] = (IF node_id[1] = 0 THEN 1
                     ELSE IF node_id[1] = 1 THEN max_node_id(config) ELSE 0)
    /\ state[2] = State_new(0, 0)
    /\ holds = [t \in Threads |-> IF t = 1 THEN Gens ELSE {}]
    /\ th = [t \in Threads |-> IdleThread(1)]

(***************************************************************************)
(* The clock is the environment's: it advances, and it may jump back.      *)
(***************************************************************************)
Used(g) == \E t \in Threads : g \in holds[t]

Tick(g) ==
    /\ Used(g)
    /\ clock[g] < MaxClock
    /\ clock' = [clock EXCEPT ![g] = clock[g] + 1]
    /\ UNCHANGED <<config, node_id, state, holds, th, issued>>

Regress(g) ==
    /\ Used(g)
    /\ \E c \in 0..(clock[g] - 1) : clock' = [clock EXCEPT ![g] = c]
    /\ UNCHANGED <<config, node_id, state, holds, th, issued>>

(***************************************************************************)
(* generate() and its helpers (generator/generate.rs).                     *)
(***************************************************************************)
InFlight == {t \in Threads : th[t].pc # "idle"}

\* A caller invokes generate() on its generator.
Begin(t) ==
    /\ th[t].pc = "idle"
    /\ Len(issued) + Cardinality(InFlight) < MaxCalls
    /\ \E g \in holds[t] :
         th' = [th EXCEPT ![t] = [IdleThread(g) EXCEPT
                                    !.pc = "gen_now", !.began = Len(issued)]]
    /\ UNCHANGED <<config, node_id, state, clock, holds, issued>>

\* The same invocation, with the clock at the invocation noted.
BeginTimed(t) ==
    /\ th[t].pc = "idle"
    /\ Len(issued) + Cardinality(InFlight) < MaxCalls
    /\ \E g \in holds[t] :
         th' = [th EXCEPT ![t] = [IdleThread(g) EXCEPT
                                    !.pc = "gen_now", !.began = Len(issued),
                                    !.invoked = clock[g]]]
    /\ UNCHANGED <<config, node_id, state, clock, holds, issued>>

\* let now = self.now_ms();
ReadNow(t, at, next) ==
    /\ th[t].pc = at
    /\ th' = [th EXCEPT ![t].now = now_ms(th[t].gen), ![t].pc = next]
    /\ UNCHANGED <<config, node_id, state, clock, holds, issued>>

\* The highest published timestamp a call has seen ahead of its clock reading.
SeenBehind(t, raw) ==
    IF th[t].now < State_timestamp(raw) /\ State_timestamp(raw) > th[t].behind
    THEN State_timestamp(raw) ELSE th[t].behind

\* The highest timestamp T a call has seen published as (T, max_seq) while its
\* clock reading was at most T.
SeenExhausted(t, raw) ==
    IF /\ th[t].now <= State_timestamp(raw)
       /\ State_sequence(raw) = max_seq
       /\ State_timestamp(raw) > th[t].exhausted
    THEN State_timestamp(raw) ELSE th[t].exhausted

\* let current = State::from_raw(self.state.load(Ordering::Acquire));
GenerateNow(t) == ReadNow(t, "gen_now", "gen_load")

GenerateLoad(t) ==
    /\ th[t].pc = "gen_load"
    /\ LET raw == state[th[t].gen] IN
       th' = [th EXCEPT ![t].current = raw, ![t].pc = "gen_try",
                        ![t].behind = SeenBehind(t, raw),
                        ![t].exhausted = SeenExhausted(t, raw)]
    /\ UNCHANGED <<config, node_id, state, clock, holds, issued>>

SlowNow(t) == ReadNow(t, "slow_now", "slow_load")

SlowLoad(t) ==
    /\ th[t].pc = "slow_load"
    /\ LET raw == state[th[t].gen] IN
       th' = [th EXCEPT ![t].current = raw, ![t].pc = "slow_try",
                        ![t].behind = SeenBehind(t, raw),
                        ![t].exhausted = SeenExhausted(t, raw)]
    /\ UNCHANGED <<config, node_id, state, clock, holds, issued>>

\* Mutant: any clock reading other than the published timestamp claims.
time_differs(now, current) == now # State_timestamp(current)

\* Mutant: a clock reading equal to the published timestamp claims it again.
time_not_behind(now, current) == now >= State_timestamp(current)

\* if now > current.timestamp()
time_advanced(now, current) == now > State_timestamp(current)

\* Mutant: the claim publishes the millisecond after the clock reading.
claimed_state_ahead(new_ts) == State_new(new_ts + 1, 0)

\* Mutant: a claimed millisecond is published with sequence 1.
claimed_state_one_based(new_ts) == State_new(new_ts, 1)

\* try_claim_millisecond: State::new(new_ts, 0)
claimed_state(new_ts) == State_new(new_ts, 0)

\* Mutant: the guard on the sequence is missing.
sequence_available_always(current, max) == TRUE

\* Mutant: the guard is current.sequence() > self.max_seq.
sequence_available_inclusive(current, max) == State_sequence(current) <= max

\* try_increment_sequence: the guard current.sequence() >= self.max_seq negated
sequence_available(current, max) == State_sequence(current) < max

\* Mutant: the increment passes over a sequence value.
new_seq_by_two(current) == (State_sequence(current) + 2) % Pow2(16)

\* Mutant: the sequence is not incremented.
new_seq_stuck(current) == State_sequence(current)

\* try_increment_sequence: current.sequence() + 1 (u16)
new_seq(current) == (State_sequence(current) + 1) % Pow2(16)

\* Mutant: the increment publishes sequence 0 in the same millisecond.
incremented_state_reset(current) == State_new(State_timestamp(current), 0)

\* Mutant: the published sequence runs one ahead of the returned one.
incremented_state_skipping(current) ==
    State_new(State_timestamp(current), new_seq(current) + 1)

incremented_state(current) == State_new(State_timestamp(current), new_seq(current))

\* Mutant: a plain store in place of the compare-exchange.
cas_unconditional(g, expected) == TRUE

\* Mutant: the compare-exchange compares the timestamps only.
cas_on_timestamp(g, expected) ==
    State_timestamp(state[g]) = State_timestamp(expected)

\* compare_exchange_weak succeeds only on the expected value (and may fail on it).
cas_may_succeed(g, expected) == state[g] = expected

\* Mutant: the publication is written to every generator's state word.
Publish_everywhere(t, new_state, timestamp, sequence, by_claim) ==
    LET g == th[t].gen IN
    /\ cas_may_succeed(g, th[t].current)
    /\ state' = [h \in Gens |-> new_state]
    /\ issued' = Append(issued,
         [gen |-> g, thread |-> t, timestamp |-> timestamp, sequence |-> sequence,
          id |-> assemble_id(g, timestamp, sequence), replaced |-> th[t].current,
          now |-> th[t].now, began |-> th[t].began, behind |-> th[t].behind,
          exhausted |-> th[t].exhausted, by_claim |-> by_claim])
    /\ th' = [th EXCEPT ![t] = IdleThread(1)]
    /\ UNCHANGED <<config, node_id, clock, holds>>

\* A successful CAS publishes new_state; the call returns the ID assembled from it.
Publish(t, new_state, timestamp, sequence, by_claim) ==
    LET g == th[t].gen IN
    /\ cas_may_succeed(g, th[t].current)
    /\ state' = [state EXCEPT ![g] = new_state]
    /\ issued' = Append(issued,
         [gen |-> g, thread |-> t, timestamp |-> timestamp, sequence |-> sequence,
          id |-> assemble_id(g, timestamp, sequence), replaced |-> th[t].current,
          now |-> th[t].now, began |-> th[t].began, behind |-> th[t].behind,
          exhausted |-> th[t].exhausted, by_claim |-> by_claim])
    /\ th' = [th EXCEPT ![t] = IdleThread(1)]
    /\ UNCHANGED <<config, node_id, clock, holds>>

try_claim_millisecond(t) ==
    Publish(t, claimed_state(th[t].now), th[t].now, 0, TRUE)

try_increment_sequence(t) ==
    /\ sequence_available(th[t].current, max_seq)
    /\ Publish(t, incremented_state(th[t].current),
               State_timestamp(th[t].current), new_seq(th[t].current), FALSE)

Goto(t, next) ==
    /\ th' = [th EXCEPT ![t].pc = next]
    /\ UNCHANGED <<config, node_id, state, clock, holds, issued>>

\* wait_next_millis is entered at the head of its loop.
WaitHead(cfg) ==
    IF cfg.spin_enabled /\ cfg.spin_loops > 0 THEN "wait_spin" ELSE "wait_sleep"

\* A call whose record carries the slow path's backoff_ms and the backoff_ms
\* of the wait routine it calls.
TracksBackoff(r) == "slow_backoff" \in DOMAIN r

\* Fast path 1, CAS won: return the ID.
GenerateClaim(t) ==
    /\ th[t].pc = "gen_try"
    /\ time_advanced(th[t].now, th[t].current)
    /\ try_claim_millisecond(t)

\* Fast path 1, CAS lost: return self.generate_slow_path().
GenerateClaimLost(t) ==
    /\ th[t].pc = "gen_try"
    /\ time_advanced(th[t].now, th[t].current)
    /\ Goto(t, "slow_now")

\* Fast path 2, CAS won.
GenerateIncrement(t) ==
    /\ th[t].pc = "gen_try"
    /\ ~time_advanced(th[t].now, th[t].current)
    /\ try_increment_sequence(t)

\* Fast path 2 returned None (sequence exhausted, or CAS lost): slow path.
GenerateIncrementNone(t) ==
    /\ th[t].pc = "gen_try"
    /\ ~time_advanced(th[t].now, th[t].current)
    /\ Goto(t, "slow_now")

SlowClaim(t) ==
    /\ th[t].pc = "slow_try"
    /\ time_advanced(th[t].now, th[t].current)
    /\ try_claim_millisecond(t)

\* continue
SlowClaimLost(t) ==
    /\ th[t].pc = "slow_try"
    /\ time_advanced(th[t].now, th[t].current)
    /\ Goto(t, "slow_now")

SlowIncrement(t) ==
    /\ th[t].pc = "slow_try"
    /\ ~time_advanced(th[t].now, th[t].current)
    /\ try_increment_sequence(t)

\* try_increment_sequence returned None:
\* self.wait_next_millis(current.timestamp(), backoff_ms)
SlowIncrementNone(t) ==
    /\ th[t].pc = "slow_try"
    /\ ~time_advanced(th[t].now, th[t].current)
    /\ th' = [th EXCEPT ![t] =
                LET r == [th[t] EXCEPT
                            !.pc = WaitHead(config),
                            !.from_timestamp = State_timestamp(th[t].current),
                            !.i = 0]
                IN IF TracksBackoff(r)
                   THEN [r EXCEPT !.backoff_ms = r.slow_backoff]
                   ELSE r]
    /\ UNCHANGED <<config, node_id, state, clock, holds, issued>>

(***************************************************************************)
(* wait_next_millis (generator/mod.rs).                                    *)
(***************************************************************************)
\* A caller of wait_next_millis itself (it is pub(crate)): its record carries
\* the backoff of the sleep phase and the value returned.
WaitIdle(g) ==
    [pc |-> "idle", gen |-> g, now |-> 0, current |-> 0,
     from_timestamp |-> 0, i |-> 0,
     began |-> 0, invoked |-> 0, behind |-> -1, exhausted |-> -1,
     backoff_ms |-> 0, result |-> 0]

IsDirectCall(r) == "result" \in DOMAIN r

\* wait_next_millis returned new_ts: to its direct caller, or to the slow
\* path, which drops the value and goes round its loop.
WaitReturn(t, new_ts) ==
    IF IsDirectCall(th[t])
    THEN [th[t] EXCEPT !.pc = "wait_done", !.result = new_ts, !.i = 0]
    ELSE LET r == [th[t] EXCEPT !.pc = "slow_now", !.from_timestamp = 0, !.i = 0]
         IN IF TracksBackoff(r)
            THEN [r EXCEPT !.slow_backoff = doubled_backoff(r.slow_backoff)]
            ELSE r

\* Mutant: the wait returns only two milliseconds past from_timestamp.
clock_advanced_by_two(new_ts, from_timestamp) == new_ts > from_timestamp + 1

\* Mutant: a reading equal to from_timestamp ends the wait.
clock_not_behind(new_ts, from_timestamp) == new_ts >= from_timestamp

\* if new_ts > from_timestamp { return new_ts; }
clock_advanced(new_ts, from_timestamp) == new_ts > from_timestamp

\* Mutant: the yield falls on the first iteration of every group.
yields_at_multiples(cfg, i) ==
    /\ cfg.spin_yield_every # 0
    /\ i % cfg.spin_yield_every = 0

\* if yield_every != 0 && i % yield_every == yield_every - 1
yields_after(cfg, i) ==
    /\ cfg.spin_yield_every # 0
    /\ i % cfg.spin_yield_every = cfg.spin_yield_every - 1

\* The end of one iteration of the spin loop: the next iteration, or the
\* sleep once spin_loops iterations are done.
SpinAdvance(t) ==
    IF th[t].i + 1 < config.spin_loops
    THEN [th[t] EXCEPT !.i = th[t].i + 1, !.pc = "wait_spin"]
    ELSE [th[t] EXCEPT !.i = 0, !.pc = "wait_sleep"]

\* One iteration of the spin loop: read the clock, return if it advanced.
WaitSpin(t) ==
    /\ th[t].pc = "wait_spin"
    /\ LET new_ts == now_ms(th[t].gen) IN
       th' = [th EXCEPT ![t] =
                IF clock_advanced(new_ts, th[t].from_timestamp)
                THEN WaitReturn(t, new_ts)
                ELSE IF yields_after(config, th[t].i)
                     THEN [th[t] EXCEPT !.pc = "wait_yield"]
                     ELSE SpinAdvance(t)]
    /\ UNCHANGED <<config, node_id, state, clock, holds, issued>>

\* thread::yield_now() inside the spin loop.
WaitYield(t) ==
    /\ th[t].pc = "wait_yield"
    /\ th' = [th EXCEPT ![t] = SpinAdvance(t)]
    /\ UNCHANGED <<config, node_id, state, clock, holds, issued>>

\* backoff_ms = backoff_ms.saturating_mul(2).min(MAX_BACKOFF_MS), and round
\* the loop.  The slow path's record does not carry the backoff: how long
\* its sleeps last is not part of its state, unless the call tracks it.
SleepAgain(r, cfg) ==
    IF "backoff_ms" \in DOMAIN r
    THEN [r EXCEPT !.pc = WaitHead(cfg), !.backoff_ms = doubled_backoff(r.backoff_ms)]
    ELSE [r EXCEPT !.pc = WaitHead(cfg)]

\* thread::sleep(backoff_ms), then read the clock; go round the loop if it did
\* not advance.
WaitSleep(t) ==
    /\ th[t].pc = "wait_sleep"
    /\ LET new_ts == now_ms(th[t].gen) IN
       th' = [th EXCEPT ![t] =
                IF clock_advanced(new_ts, th[t].from_timestamp)
                THEN WaitReturn(t, new_ts)
                ELSE SleepAgain(th[t], config)]
    /\ UNCHANGED <<config, node_id, state, clock, holds, issued>>

\* The steps of a call that is under way.
CallStep(t) ==
    \/ GenerateNow(t)
    \/ GenerateLoad(t)
    \/ GenerateClaim(t)
    \/ GenerateClaimLost(t)
    \/ GenerateIncrement(t)
    \/ GenerateIncrementNone(t)
    \/ SlowNow(t)
    \/ SlowLoad(t)
    \/ SlowClaim(t)
    \/ SlowClaimLost(t)
    \/ SlowIncrement(t)
    \/ SlowIncrementNone(t)
    \/ WaitSpin(t)
    \/ WaitSleep(t)

ThreadStep(t) ==
    \/ Begin(t)
    \/ CallStep(t)

Next ==
    \/ \E t \in Threads : ThreadStep(t)
    \/ \E g \in Gens : Tick(g)
    \/ \E g \in Gens : Regress(g)

Spec == Init /\ [][Next]_vars

\* The clocks of the two generators advance independently.
NextNodes ==
    \/ \E t \in Threads : ThreadStep(t)
    \/ \E g \in Gens : Tick(g)

SpecNodes == InitNodes /\ [][NextNodes]_vars

\* A clock that never goes back: it starts at the timestamp the generator
\* last published and only advances.
InitMonotonic ==
    /\ config \in Configs(CoreNodeBits)
    /\ state \in [Gens -> StartStates(config)]
    /\ state[2] = State_new(0, 0)
    /\ clock = [g \in Gens |-> State_timestamp(state[g])]
    /\ issued = <<>>
    /\ node_id \in [Gens -> {0, 1, max_node_id(config)}]
    /\ node_id[1] # 1 /\ node_id[2] = 1
    /\ holds = [t \in Threads |-> {1}]
    /\ th = [t \in Threads |-> IdleThread(1)]

NextMonotonic ==
    \/ \E t \in Threads : BeginTimed(t)
    \/ \E t \in Threads : CallStep(t)
    \/ \E g \in Gens : Tick(g)

SpecMonotonic == InitMonotonic /\ [][NextMonotonic]_vars

(***************************************************************************)
(* wait_next_millis called on its own, as the timing tests do: one caller, *)
(* every spin setting, a clock that advances and jumps back.               *)
(***************************************************************************)
\* Backoffs handed to wait_next_millis: none, the slow path's first, one
\* that is no power of two, and the cap.
InitialBackoffs == {0, 1, 3, MAX_BACKOFF_MS}

WaitConfigs ==
    {[node_bits |-> MAX_NODE_BITS, spin_enabled |-> e, spin_loops |-> l,
      spin_yield_every |-> y] :
        e \in BOOLEAN, l \in 0..(MaxSpinLoops + 1), y \in 0..(MaxSpinLoops + 1)}

InitWait ==
    /\ config \in WaitConfigs
    /\ node_id = [g \in Gens |-> g]
    /\ state = [g \in Gens |-> State_new(0, 0)]
    /\ clock = [g \in Gens |-> 0]
    /\ issued = <<>>
    /\ holds = [t \in Threads |-> IF t = 1 THEN {1} ELSE {}]
    /\ th = [t \in Threads |-> IF t = 1 THEN WaitIdle(1) ELSE IdleThread(1)]

\* generator.wait_next_millis(from, backoff)
WaitCall(t) ==
    /\ IsDirectCall(th[t])
    /\ th[t].pc \in {"idle", "wait_done"}
    /\ \E g \in holds[t], from \in 0..MaxClock, backoff \in InitialBackoffs :
         th' = [th EXCEPT ![t] = [WaitIdle(g) EXCEPT
                                    !.pc = WaitHead(config),
                                    !.from_timestamp = from,
                                    !.backoff_ms = backoff]]
    /\ UNCHANGED <<config, node_id, state, clock, holds, issued>>

NextWait ==
    \/ \E t \in Threads : WaitCall(t)
    \/ \E t \in Threads : WaitSpin(t)
    \/ \E t \in Threads : WaitYield(t)
    \/ \E t \in Threads : WaitSleep(t)
    \/ \E g \in Gens : Tick(g)
    \/ \E g \in Gens : Regress(g)

SpecWait == InitWait /\ [][NextWait]_vars

(***************************************************************************)
(* Progress.  The scheduler is fair to every thread; a weak                *)
(* compare-exchange that can succeed again and again does succeed; and the *)
(* clock passes every published timestamp: it is never stuck at or below   *)
(* the timestamp of a state word.                                          *)
(***************************************************************************)
TickLive(g) ==
    /\ Used(g)
    /\ clock[g] <= State_timestamp(state[g])
    /\ clock' = [clock EXCEPT ![g] = clock[g] + 1]
    /\ UNCHANGED <<config, node_id, state, holds, th, issued>>

CasWon(t) ==
    \/ GenerateClaim(t)
    \/ GenerateIncrement(t)
    \/ SlowClaim(t)
    \/ SlowIncrement(t)

\* Progress does not depend on the bit layout: one node width, one node,
\* spinning enabled or disabled.
InitLive ==
    /\ Init
    /\ config.node_bits = MAX_NODE_BITS
    /\ config.spin_loops > 0
    /\ node_id[1] = 0

NextLive ==
    \/ \E t \in Threads : ThreadStep(t)
    \/ \E g \in Gens : TickLive(g)

SpecLive ==
    /\ InitLive
    /\ [][NextLive]_vars
    /\ \A t \in Threads : WF_vars(ThreadStep(t)) /\ SF_vars(CasWon(t))
    /\ \A g \in Gens : WF_vars(TickLive(g))

(***************************************************************************)
(* Progress without sleeping.  Every thread keeps taking the steps of its  *)
(* call that do not sleep, and a compare-exchange that can succeed again   *)
(* and again does succeed; nothing makes a thread go through a sleep, and  *)
(* nothing makes the clock advance.                                        *)
(***************************************************************************)
\* The steps of a call other than the sleep of the wait routine.
AwakeStep(t) ==
    \/ GenerateNow(t)
    \/ GenerateLoad(t)
    \/ GenerateClaim(t)
    \/ GenerateClaimLost(t)
    \/ GenerateIncrement(t)
    \/ GenerateIncrementNone(t)
    \/ SlowNow(t)
    \/ SlowLoad(t)
    \/ SlowClaim(t)
    \/ SlowClaimLost(t)
    \/ SlowIncrement(t)
    \/ SlowIncrementNone(t)
    \/ WaitSpin(t)

NextAwake ==
    \/ \E t \in Threads : ThreadStep(t)
    \/ \E g \in Gens : Tick(g)

SpecAwake ==
    /\ InitLive
    /\ [][NextAwake]_vars
    /\ \A t \in Threads : WF_vars(AwakeStep(t)) /\ SF_vars(CasWon(t))

(***************************************************************************)
(* Construction and the pure operations, driven by one thread: it builds a *)
(* configuration, constructs generators on it, and calls them.  Its record *)
(* keeps the outcome of the last operation until the next one.             *)
(***************************************************************************)
SetupThread == 1

NoResult == [op |-> "none"]

SetupIdle(last) == [pc |-> "idle", last |-> last]

HasLast(r) == "last" \in DOMAIN r

\* SnowIDConfig::builder() with the spin settings of the model.
BuilderNew ==
    [node_bits |-> DEFAULT_NODE_BITS, spin_enabled |-> TRUE,
     spin_loops |-> MaxSpinLoops, spin_yield_every |-> 0]

\* Arguments of SnowIDConfigBuilder::node_bits (u8).
NodeBitsArgs == (0..(MAX_NODE_BITS + 2)) \cup {255}

\* Arguments of SnowID::with_config (u16): around the largest node of cfg,
\* and the largest u16.
NodeIdArgs(cfg) ==
    {n \in {0, 1, max_node_id(cfg) - 1, max_node_id(cfg), max_node_id(cfg) + 1,
            65535} : n <= 65535}

\* Mutant: only widths above the range are rejected.
node_bits_rejected_above(bits) == bits > MAX_NODE_BITS

\* if !(6..=16).contains(&bits)
node_bits_rejected(bits) == bits \notin ValidNodeBits

\* SnowIDConfig::builder().node_bits(bits)?.build()
NodeBits(t) ==
    /\ th[t].pc = "idle"
    /\ holds[t] = {}
    /\ \E bits \in NodeBitsArgs :
         IF node_bits_rejected(bits)
         THEN /\ th' = [th EXCEPT ![t] = SetupIdle(
                         [op |-> "node_bits", bits |-> bits, ok |-> FALSE,
                          err |-> <<"InvalidNodeBits", bits>>])]
              /\ UNCHANGED config
         ELSE /\ config' = [BuilderNew EXCEPT !.node_bits = bits]
              /\ th' = [th EXCEPT ![t] = SetupIdle(
                         [op |-> "node_bits", bits |-> bits, ok |-> TRUE,
                          err |-> <<>>])]
    /\ UNCHANGED <<node_id, state, clock, holds, issued>>

\* Mutant: the largest node of the configuration is rejected as well.
node_id_rejected_at_max(node, max) == node >= max

\* if node_id > max_node_id
node_id_rejected(node, max) == node > max

\* SnowID::with_config(node, config)
WithConfig(t) ==
    /\ th[t].pc = "idle"
    /\ \E g \in Gens \ holds[t], node \in NodeIdArgs(config) :
         LET max == max_node_id(config) IN
         IF node_id_rejected(node, max)
         THEN /\ th' = [th EXCEPT ![t] = SetupIdle(
                         [op |-> "with_config", gen |-> g, node_id |-> node,
                          ok |-> FALSE, err |-> <<"InvalidNodeId", node, max>>])]
              /\ UNCHANGED <<node_id, state, holds>>
         ELSE /\ state' = [state EXCEPT ![g] = 0]
              /\ node_id' = [node_id EXCEPT ![g] = node]
              /\ holds' = [holds EXCEPT ![t] = holds[t] \cup {g}]
              /\ th' = [th EXCEPT ![t] = SetupIdle(
                         [op |-> "with_config", gen |-> g, node_id |-> node,
                          ok |-> TRUE, err |-> <<>>])]
    /\ UNCHANGED <<config, clock, issued>>

\* The largest timestamp whose ID the model's integers hold (they have 31
\* bits, of which the node and the sequence take 22).
MaxModelTimestamp == Pow2(31 - TOTAL_NODE_AND_SEQUENCE_BITS) - 1

\* Triples within the widths of cfg: the ends of every field and a value
\* next to an end.
Triples(cfg) ==
    {0, 1, MaxModelTimestamp}
    \X {0, 1, max_node_id(cfg)}
    \X {0, 1, max_sequence_id(cfg)}

\* generator.extract.decompose(id) of the ID assembled from a triple.
Decompose(t) ==
    /\ th[t].pc = "idle"
    /\ holds[t] # {}
    /\ \E triple \in Triples(config) :
         LET id == create_snowid_fast(config, Shl(triple[2], node_shift(config)),
                                      triple[1], triple[3])
         IN th' = [th EXCEPT ![t] = SetupIdle(
                     [op |-> "decompose", triple |-> triple, id |-> id,
                      parts |-> decompose(config, id)])]
    /\ UNCHANGED <<config, node_id, state, clock, holds, issued>>

\* No generator exists yet; the configuration is the default one.
InitSetup ==
    /\ config = BuilderNew
    /\ node_id = [g \in Gens |-> 0]
    /\ state = [g \in Gens |-> 0]
    /\ clock = [g \in Gens |-> 0]
    /\ issued = <<>>
    /\ holds = [t \in Threads |-> {}]
    /\ th = [t \in Threads |-> SetupIdle(NoResult)]

NextSetup ==
    \/ NodeBits(SetupThread)
    \/ WithConfig(SetupThread)

SpecSetup == InitSetup /\ [][NextSetup]_vars

\* One generator of any node width, built and handed to the thread, which
\* calls generate() and the extractor on it.
InitCodec ==
    /\ config \in {[BuilderNew EXCEPT !.node_bits = nb] : nb \in ValidNodeBits}
    /\ node_id \in [Gens -> {0, 1, max_node_id(config)}]
    /\ node_id[2] = 0
    /\ state = [g \in Gens |-> 0]
    /\ clock = [g \in Gens |-> 0]
    /\ issued = <<>>
    /\ holds = [t \in Threads |-> IF t = SetupThread THEN {1} ELSE {}]
    /\ th = [t \in Threads |-> SetupIdle(NoResult)]

NextCodec ==
    \/ Decompose(SetupThread)
    \/ ThreadStep(SetupThread)
    \/ \E g \in Gens : Tick(g)

SpecCodec == InitCodec /\ [][NextCodec]_vars

(***************************************************************************)
(* Base62 encoding and decoding, and the generator's decode methods.       *)
(***************************************************************************)
\* Values encoded: 0, the ends of the one-digit range, 62, 1000, 2^31, the
\* largest 10-digit and the smallest 11-digit value, u64::MAX / 2, u64::MAX.
U64Samples ==
    {u64_zero, u64_from(1), u64_from(10), u64_from(61), u64_from(62),
     u64_from(1000), <<0, 0, 32768, 0>>,
     <<2981, 51795, 37579, 1023>>, <<2981, 51795, 37579, 1024>>,
     <<32767, 65535, 65535, 65535>>, <<65535, 65535, 65535, 65535>>}

\* Strings decoded.
DecodeInputs ==
    {<<>>,
     <<48>>, <<71, 56>>, <<122, 122, 122, 122, 122>>,
     <<33>>, <<97, 33, 98>>, <<97, 98, 99, 33, 100, 101, 102>>,
     <<47>>, <<58>>, <<64>>, <<91>>, <<96>>, <<123>>,
     <<233>>, <<97, 233>>, <<8364>>,
     <<76, 121, 103, 72, 97, 49, 54, 65, 72, 89, 70>>,
     <<76, 121, 103, 72, 97, 49, 54, 65, 72, 89, 71>>,
     <<122, 122, 122, 122, 122, 122, 122, 122, 122, 122, 122>>,
     <<48, 48, 48, 48, 48, 48, 48, 48, 48, 48, 48, 48, 49>>,
     <<122, 122, 122, 122, 122, 122, 122, 122, 122, 122, 122, 122, 33>>}

\* The inputs of decompose_base62 in the model: those decode rejects, and
\* those whose value the model's integers hold.
DecomposeInputs == {str \in DecodeInputs : Len(str) <= 5 \/ ~decode(str).ok}

\* base62::encode(x)
Encode(t) ==
    /\ th[t].pc = "idle"
    /\ \E x \in U64Samples :
         th' = [th EXCEPT ![t] = SetupIdle([op |-> "encode", x |-> x, out |-> encode(x)])]
    /\ UNCHANGED <<config, node_id, state, clock, holds, issued>>

\* base62::decode of the string just encoded.
DecodeEncoded(t) ==
    /\ th[t].pc = "idle"
    /\ HasLast(th[t]) /\ th[t].last.op = "encode"
    /\ th' = [th EXCEPT ![t] = SetupIdle(
                [op |-> "decode_encoded", x |-> th[t].last.x, input |-> th[t].last.out,
                 result |-> decode(th[t].last.out)])]
    /\ UNCHANGED <<config, node_id, state, clock, holds, issued>>

\* base62::decode(encoded)
Decode(t) ==
    /\ th[t].pc = "idle"
    /\ \E str \in DecodeInputs :
         th' = [th EXCEPT ![t] = SetupIdle(
                  [op |-> "decode", input |-> str, result |-> decode(str)])]
    /\ UNCHANGED <<config, node_id, state, clock, holds, issued>>

\* generator.decode_base62(encoded)
DecodeBase62(t) ==
    /\ th[t].pc = "idle"
    /\ \E g \in holds[t], str \in DecodeInputs :
         th' = [th EXCEPT ![t] = SetupIdle(
                  [op |-> "decode_base62", gen |-> g, input |-> str,
                   state_before |-> state[g], result |-> decode(str)])]
    /\ UNCHANGED <<config, node_id, state, clock, holds, issued>>

\* let id = self.decode_base62(encoded)?; Ok(self.extract.decompose(id))
decompose_base62(cfg, encoded) ==
    LET id == decode(encoded) IN
    IF id.ok THEN [ok |-> TRUE, val |-> decompose(cfg, u64_to_int(id.val)), err |-> <<>>]
    ELSE [ok |-> FALSE, val |-> <<>>, err |-> id.err]

\* generator.decompose_base62(encoded)
DecomposeBase62(t) ==
    /\ th[t].pc = "idle"
    /\ \E g \in holds[t], str \in DecomposeInputs :
         th' = [th EXCEPT ![t] = SetupIdle(
                  [op |-> "decompose_base62", gen |-> g, input |-> str,
                   state_before |-> state[g], result |-> decompose_base62(config, str)])]
    /\ UNCHANGED <<config, node_id, state, clock, holds, issued>>

\* One generator of any node width, fresh or used, held by the thread.
InitBase62 ==
    /\ config \in {[BuilderNew EXCEPT !.node_bits = nb] : nb \in ValidNodeBits}
    /\ node_id = [g \in Gens |-> 1]
    /\ state \in [Gens -> StartStates(config)]
    /\ state[2] = State_new(0, 0)
    /\ clock = [g \in Gens |-> 0]
    /\ issued = <<>>
    /\ holds = [t \in Threads |-> IF t = SetupThread THEN {1} ELSE {}]
    /\ th = [t \in Threads |-> SetupIdle(NoResult)]

NextBase62 ==
    \/ Encode(SetupThread)
    \/ DecodeEncoded(SetupThread)
    \/ Decode(SetupThread)
    \/ DecodeBase62(SetupThread)
    \/ DecomposeBase62(SetupThread)

SpecBase62 == InitBase62 /\ [][NextBase62]_vars

(***************************************************************************)
(* The functions of generator/wait.rs, called with the clock as their time *)
(* source, and generate() with the backoff of its slow path kept in the    *)
(* caller's record.                                                        *)
(***************************************************************************)
\* Sleeps of one sleep_until_next_ms call that the model follows.
MaxSleeps == 8

\* Arguments of next_backoff: around the doubling that reaches the cap, the
\* values of its test, and around the doubling that leaves 64 bits.
BackoffSamples ==
    {u64_zero, u64_from(1), u64_from(49), u64_from(50), u64_from(51),
     u64_from(99), u64_from(100), u64_from(101), u64_from(200),
     <<0, 0, 32768, 0>>, <<32767, 65535, 65535, 65535>>, <<32768, 0, 0, 0>>,
     <<32768, 0, 0, 25>>, u64_max}

\* wait::next_backoff(x)
NextBackoff(t) ==
    /\ th[t].pc = "idle"
    /\ \E x \in BackoffSamples :
         th' = [th EXCEPT ![t] = SetupIdle(
                  [op |-> "next_backoff", x |-> x, out |-> next_backoff(x)])]
    /\ UNCHANGED <<config, node_id, state, clock, holds, issued>>

\* What spin_wait returned, with the clock readings it took and the
\* iterations after which it yielded.
SpinResult(r, reads, yields, result) ==
    SetupIdle([op |-> "spin_wait", from |-> r.from_timestamp,
               reads |-> reads, yields |-> yields, result |-> result])

\* if !config.spin_enabled() || config.spin_loops() == 0 { return None; }
SpinWaitCall(t) ==
    /\ th[t].pc = "idle"
    /\ \E g \in holds[t], from \in 0..MaxClock :
         LET r == [pc |-> "spin_check", gen |-> g, from_timestamp |-> from,
                   i |-> 0, reads |-> <<>>, yields |-> {}]
         IN th' = [th EXCEPT ![t] =
                     IF ~config.spin_enabled \/ config.spin_loops = 0
                     THEN SpinResult(r, <<>>, {}, <<"None">>)
                     ELSE r]
    /\ UNCHANGED <<config, node_id, state, clock, holds, issued>>

\* The end of iteration i of spin_wait's loop: the next one, or None.
SpinNext(r) ==
    IF r.i + 1 < config.spin_loops
    THEN [r EXCEPT !.i = r.i + 1, !.pc = "spin_check"]
    ELSE SpinResult(r, r.reads, r.yields, <<"None">>)

\* let new_ts = get_time(); if new_ts > from_timestamp { return Some(new_ts); }
SpinCheck(t) ==
    /\ th[t].pc = "spin_check"
    /\ LET new_ts == now_ms(th[t].gen)
           r == [th[t] EXCEPT !.reads = Append(th[t].reads, new_ts)]
       IN th' = [th EXCEPT ![t] =
                   IF new_ts > r.from_timestamp
                   THEN SpinResult(r, r.reads, r.yields, <<"Some", new_ts>>)
                   ELSE IF yields_after(config, r.i)
                        THEN [r EXCEPT !.pc = "spin_yield"]
                        ELSE SpinNext(r)]
    /\ UNCHANGED <<config, node_id, state, clock, holds, issued>>

\* thread::yield_now()
SpinYield(t) ==
    /\ th[t].pc = "spin_yield"
    /\ th' = [th EXCEPT ![t] =
                SpinNext([th[t] EXCEPT !.yields = th[t].yields \cup {th[t].i}])]
    /\ UNCHANGED <<config, node_id, state, clock, holds, issued>>

\* sleep_until_next_ms(from_timestamp, backoff_ms, get_time)
SleepUntilCall(t) ==
    /\ th[t].pc = "idle"
    /\ \E g \in holds[t], from \in 0..MaxClock, backoff \in InitialBackoffs :
         th' = [th EXCEPT ![t] =
                  [pc |-> "sleep", gen |-> g, from_timestamp |-> from,
                   initial |-> backoff, backoff_ms |-> backoff, slept |-> <<>>]]
    /\ UNCHANGED <<config, node_id, state, clock, holds, issued>>

\* thread::sleep(Duration::from_millis(backoff_ms)); let new_ts = get_time();
\* if new_ts > from_timestamp { return new_ts; }
\* backoff_ms = next_backoff(backoff_ms);
SleepCheck(t) ==
    /\ th[t].pc = "sleep"
    /\ Len(th[t].slept) < MaxSleeps
    /\ LET new_ts == now_ms(th[t].gen)
           slept == Append(th[t].slept, th[t].backoff_ms)
       IN th' = [th EXCEPT ![t] =
                   IF new_ts > th[t].from_timestamp
                   THEN SetupIdle([op |-> "sleep_until_next_ms",
                                   from |-> th[t].from_timestamp,
                                   initial |-> th[t].initial,
                                   slept |-> slept, result |-> new_ts])
                   ELSE [th[t] EXCEPT !.slept = slept,
                                      !.backoff_ms = doubled_backoff(th[t].backoff_ms)]]
    /\ UNCHANGED <<config, node_id, state, clock, holds, issued>>

\* generate(), the caller's record keeping `let mut backoff_ms = 1u64` of
\* the slow path and the backoff_ms handed to wait_next_millis.
BeginBackoff(t) ==
    /\ th[t].pc = "idle"
    /\ Len(issued) + Cardinality(InFlight) < MaxCalls
    /\ \E g \in holds[t] :
         th' = [th EXCEPT ![t] =
                  [IdleThread(g) EXCEPT !.pc = "gen_now", !.began = Len(issued)]
                  @@ [slow_backoff |-> 1, backoff_ms |-> 0]]
    /\ UNCHANGED <<config, node_id, state, clock, holds, issued>>

\* One thread calling spin_wait with the clock of one generator as its time
\* source, under every spin setting.
InitSpin ==
    /\ config \in WaitConfigs
    /\ node_id = [g \in Gens |-> g]
    /\ state = [g \in Gens |-> State_new(0, 0)]
    /\ clock = [g \in Gens |-> 0]
    /\ issued = <<>>
    /\ holds = [t \in Threads |-> IF t = SetupThread THEN {1} ELSE {}]
    /\ th = [t \in Threads |-> SetupIdle(NoResult)]

NextSpin ==
    \/ SpinWaitCall(SetupThread)
    \/ SpinCheck(SetupThread)
    \/ SpinYield(SetupThread)
    \/ \E g \in Gens : Tick(g)
    \/ \E g \in Gens : Regress(g)

SpecSpin == InitSpin /\ [][NextSpin]_vars

\* One thread calling next_backoff, sleep_until_next_ms, and generate() on a
\* generator that is fresh or close to the end of a millisecond, with
\* spinning enabled, disabled, or without loops.
InitBackoff ==
    /\ config \in Configs({MAX_NODE_BITS})
    /\ node_id = [g \in Gens |-> g]
    /\ state \in [Gens -> StartStates(config)]
    /\ state[2] = State_new(0, 0)
    /\ clock = [g \in Gens |-> 0]
    /\ issued = <<>>
    /\ holds = [t \in Threads |-> IF t = SetupThread THEN {1} ELSE {}]
    /\ th = [t \in Threads |-> SetupIdle(NoResult)]

NextBackoffs ==
    \/ NextBackoff(SetupThread)
    \/ SleepUntilCall(SetupThread)
    \/ SleepCheck(SetupThread)
    \/ BeginBackoff(SetupThread)
    \/ CallStep(SetupThread)
    \/ \E g \in Gens : Tick(g)
    \/ \E g \in Gens : Regress(g)

SpecBackoff == InitBackoff /\ [][NextBackoffs]_vars

(***************************************************************************)
(* The clock reading of generate(): wall-clock milliseconds minus the      *)
(* epoch of the configuration (generator/time.rs, SnowID::now_ms).         *)
(***************************************************************************)
\* pub(super) const DEFAULT_CUSTOM_EPOCH: u64 = 1704067200000
DEFAULT_CUSTOM_EPOCH == <<0, 396, 49745, 62464>>

\* Readings of unix_time_ms(): the millisecond of the default epoch and the
\* one after it, and three instants of November 2026.
WallClocks ==
    {DEFAULT_CUSTOM_EPOCH, <<0, 396, 49745, 62465>>,
     <<0, 417, 37991, 59392>>, <<0, 417, 37991, 59393>>, <<0, 417, 38000, 0>>}

\* Arguments of SnowIDConfigBuilder::epoch: the Unix epoch, instants before,
\* at and after the wall-clock readings, and the ends of the 64-bit range.
Epochs ==
    {u64_zero, u64_from(1), <<0, 417, 37991, 59394>>, <<0, 955, 11459, 55296>>,
     <<32768, 0, 0, 0>>, u64_max}
    \cup WallClocks

\* a - b on u64 values: the difference modulo 2^64, and whether it
\* underflowed.
u64_sub(a, b) ==
    LET d4 == a[4] - b[4]
        d3 == a[3] - b[3] - (IF d4 < 0 THEN 1 ELSE 0)
        d2 == a[2] - b[2] - (IF d3 < 0 THEN 1 ELSE 0)
        d1 == a[1] - b[1] - (IF d2 < 0 THEN 1 ELSE 0)
    IN [underflow |-> d1 < 0,
        val |-> <<(d1 + Limb) % Limb, (d2 + Limb) % Limb,
                  (d3 + Limb) % Limb, (d4 + Limb) % Limb>>]

\* unix_time_ms() - epoch: a u64 subtraction without a check of its own.  On
\* underflow a build with overflow checks panics and a build without them
\* wraps.
time_since_epoch(wall, epoch) ==
    LET d == u64_sub(wall, epoch) IN
    IF d.underflow
    THEN {[panicked |-> TRUE, value |-> u64_zero],
          [panicked |-> FALSE, value |-> d.val]}
    ELSE {[panicked |-> FALSE, value |-> d.val]}

\* The caller's record: the epoch of the configuration it built and the
\* wall clock.
HasEpoch(r) == HasLast(r) /\ "epoch" \in DOMAIN r.last

\* SnowIDConfigBuilder::epoch(epoch): any u64 is stored as it is.
BuilderEpoch(t) ==
    /\ th[t].pc = "idle" /\ HasEpoch(th[t])
    /\ \E epoch \in Epochs :
         th' = [th EXCEPT ![t] = SetupIdle(
                  [op |-> "epoch", epoch |-> epoch, wall |-> th[t].last.wall])]
    /\ UNCHANGED <<config, node_id, state, clock, holds, issued>>

\* The wall clock moves to another reading (SystemTime is not monotonic).
WallClockMoves(t) ==
    /\ th[t].pc = "idle" /\ HasEpoch(th[t])
    /\ \E wall \in WallClocks \ {th[t].last.wall} :
         th' = [th EXCEPT ![t] = SetupIdle(
                  [op |-> "wall", epoch |-> th[t].last.epoch, wall |-> wall])]
    /\ UNCHANGED <<config, node_id, state, clock, holds, issued>>

\* let now = self.now_ms(), the first statement of generate().
NowMs(t) ==
    /\ th[t].pc = "idle" /\ HasEpoch(th[t])
    /\ \E o \in time_since_epoch(th[t].last.wall, th[t].last.epoch) :
         th' = [th EXCEPT ![t] = SetupIdle(
                  [op |-> "now_ms", epoch |-> th[t].last.epoch,
                   wall |-> th[t].last.wall,
                   panicked |-> o.panicked, value |-> o.value])]
    /\ UNCHANGED <<config, node_id, state, clock, holds, issued>>

\* A configuration with the default epoch, at some wall-clock reading.
InitEpoch ==
    /\ config \in Configs({DEFAULT_NODE_BITS})
    /\ node_id = [g \in Gens |-> g]
    /\ state = [g \in Gens |-> State_new(0, 0)]
    /\ clock = [g \in Gens |-> 0]
    /\ issued = <<>>
    /\ holds = [t \in Threads |-> IF t = SetupThread THEN {1} ELSE {}]
    /\ \E wall \in WallClocks :
         th = [t \in Threads |->
                 IF t = SetupThread
                 THEN SetupIdle([op |-> "builder", epoch |-> DEFAULT_CUSTOM_EPOCH,
                                 wall |-> wall])
                 ELSE SetupIdle(NoResult)]

NextEpoch ==
    \/ BuilderEpoch(SetupThread)
    \/ WallClockMoves(SetupThread)
    \/ NowMs(SetupThread)

SpecEpoch == InitEpoch /\ [][NextEpoch]_vars

(***************************************************************************)
(* The packed state word, the ID and its fields at their full width of 64  *)
(* bits (generator/state.rs, create_snowid_fast, extractor.rs).            *)
(***************************************************************************)
\* x << n for n below 64: the bits shifted out of 64 are lost.
u64_shl(x, n) ==
    LET w == n \div 16
        r == n % 16
        limb(i) == IF i + w <= 4 THEN x[i + w] ELSE 0
        part(i) == ((limb(i) * Pow2(r)) % Limb)
                   + (IF i < 4 THEN (limb(i + 1) * Pow2(r)) \div Limb ELSE 0)
    IN <<part(1), part(2), part(3), part(4)>>

\* x >> n for n below 64.
u64_shr(x, n) ==
    LET w == n \div 16
        r == n % 16
        limb(i) == IF i - w >= 1 THEN x[i - w] ELSE 0
        part(i) == (limb(i) \div Pow2(r))
                   + (IF i > 1 THEN (limb(i - 1) % Pow2(r)) * Pow2(16 - r) ELSE 0)
    IN <<part(1), part(2), part(3), part(4)>>

u64_and(a, b) ==
    <<BitAnd(a[1], b[1]), BitAnd(a[2], b[2]), BitAnd(a[3], b[3]), BitAnd(a[4], b[4])>>

u64_or(a, b) ==
    <<BitOr(a[1], b[1]), BitOr(a[2], b[2]), BitOr(a[3], b[3]), BitOr(a[4], b[4])>>

\* Mutant: the timestamp is shifted by a byte.
State_new_u64_by_byte(timestamp, sequence) ==
    u64_or(u64_shl(timestamp, 8), u64_from(sequence))

\* Self((timestamp << Self::SEQ_BITS) | (sequence as u64))
State_new_u64(timestamp, sequence) ==
    u64_or(u64_shl(timestamp, SEQ_BITS), u64_from(sequence))

\* self.0 >> Self::SEQ_BITS
State_timestamp_u64(raw) == u64_shr(raw, SEQ_BITS)

\* (self.0 & Self::SEQ_MASK) as u16
State_sequence_u64(raw) == u64_to_int(u64_and(raw, u64_from(SEQ_MASK)))

\* timestamp_mask: (1u64 << SnowID::TIMESTAMP_BITS) - 1
timestamp_mask_u64 == u64_sub(u64_shl(u64_from(1), TIMESTAMP_BITS), u64_from(1)).val

\* ((timestamp & self.ts_mask) << self.ts_shift) | self.node_prefix | (sequence as u64)
create_snowid_fast_u64(cfg, node, timestamp, sequence) ==
    u64_or(u64_or(u64_shl(u64_and(timestamp, timestamp_mask_u64), timestamp_shift(cfg)),
                  u64_shl(u64_from(node), node_shift(cfg))),
           u64_from(sequence))

\* (id >> self.config.timestamp_shift()) & self.config.timestamp_mask()
timestamp_u64(cfg, id) == u64_and(u64_shr(id, timestamp_shift(cfg)), timestamp_mask_u64)

\* ((id >> self.config.node_shift()) & self.config.node_mask() as u64) as u16
node_u64(cfg, id) ==
    u64_to_int(u64_and(u64_shr(id, node_shift(cfg)), u64_from(node_mask(cfg))))

\* (id & self.config.sequence_mask() as u64) as u16
sequence_u64(cfg, id) == u64_to_int(u64_and(id, u64_from(sequence_mask(cfg))))

\* Mutant: the node field is taken above node_bits bits.
decompose_u64_above_node_bits(cfg, id) ==
    <<u64_and(u64_shr(id, timestamp_shift(cfg)), timestamp_mask_u64),
      u64_to_int(u64_and(u64_shr(id, cfg.node_bits), u64_from(node_mask(cfg)))),
      u64_to_int(u64_and(id, u64_from(sequence_mask(cfg))))>>

\* SnowIDExtractor::decompose on a 64-bit id
decompose_u64(cfg, id) ==
    <<u64_and(u64_shr(id, timestamp_shift(cfg)), timestamp_mask_u64),
      u64_to_int(u64_and(u64_shr(id, node_shift(cfg)), u64_from(node_mask(cfg)))),
      u64_to_int(u64_and(id, u64_from(sequence_mask(cfg))))>>

\* Clock readings the state word can hold (below 2^48): the first
\* milliseconds, the ends of the 42 bits of the ID's timestamp field, and
\* the last reading of 48 bits.
WideClocks ==
    {u64_zero, u64_from(1), <<0, 1023, 65535, 65535>>, <<0, 1024, 0, 0>>,
     <<0, 1024, 0, 1>>, <<0, 65535, 65535, 65535>>}

\* The clock advances to a later reading.
WideTick(g) ==
    /\ Used(g)
    /\ \E c \in WideClocks :
         /\ u64_less(clock[g], c)
         /\ clock' = [clock EXCEPT ![g] = c]
    /\ UNCHANGED <<config, node_id, state, holds, th, issued>>

\* generate() by the only caller of a generator, at full width: the clock
\* reading claims a millisecond, or the sequence is incremented; the CAS
\* meets the value loaded.  With the sequence exhausted the call waits for
\* the clock.
WideGenerate(t) ==
    /\ th[t].pc = "idle"
    /\ Len(issued) < MaxCalls
    /\ \E g \in holds[t] :
         LET now == clock[g]
             current == state[g]
             claims == u64_less(State_timestamp_u64(current), now)
             timestamp == IF claims THEN now ELSE State_timestamp_u64(current)
             sequence == IF claims THEN 0 ELSE State_sequence_u64(current) + 1
             new_state == State_new_u64(timestamp, sequence)
         IN /\ claims \/ State_sequence_u64(current) < max_sequence_id(config)
            /\ state' = [state EXCEPT ![g] = new_state]
            /\ issued' = Append(issued,
                 [gen |-> g, now |-> now, state |-> new_state,
                  id |-> create_snowid_fast_u64(config, node_id[g], timestamp, sequence)])
    /\ UNCHANGED <<config, node_id, clock, holds, th>>

\* A fresh generator of the narrowest, the default or the widest node field,
\* with one caller.
InitWide ==
    /\ config \in {[BuilderNew EXCEPT !.node_bits = nb] :
                     nb \in {MIN_NODE_BITS, DEFAULT_NODE_BITS, MAX_NODE_BITS}}
    /\ node_id \in [Gens -> {0, max_node_id(config)}]
    /\ node_id[2] = 0
    /\ state = [g \in Gens |-> State_new_u64(u64_zero, 0)]
    /\ clock = [g \in Gens |-> u64_zero]
    /\ issued = <<>>
    /\ holds = [t \in Threads |-> IF t = SetupThread THEN {1} ELSE {}]
    /\ th = [t \in Threads |-> SetupIdle(NoResult)]

NextWide ==
    \/ WideGenerate(SetupThread)
    \/ \E g \in Gens : WideTick(g)

SpecWide == InitWide /\ [][NextWide]_vars

(***************************************************************************)
(* The generator with two atomics (generator.rs): last_timestamp and       *)
(* sequence are separate words; the timestamp is advanced by a CAS, the    *)
(* sequence reset by a store after it and incremented by fetch_add.        *)
(***************************************************************************)
\* generate() calls of one behaviour on the two-atomic generator.
MaxLegacyCalls == 3

\* last_timestamp: AtomicU64, sequence: AtomicU16
LegacyState(last_timestamp, sequence) ==
    [last_timestamp |-> last_timestamp, sequence |-> sequence]

LegacyIdle == [pc |-> "idle", gen |-> 1, now |-> 0, old_ts |-> 0, new_ts |-> 0]

\* A caller invokes generate().
LegacyBegin(t) ==
    /\ th[t].pc = "idle"
    /\ Len(issued) + Cardinality(InFlight) < MaxLegacyCalls
    /\ \E g \in holds[t] : th' = [th EXCEPT ![t] = [LegacyIdle EXCEPT !.pc = "fast_now", !.gen = g]]
    /\ UNCHANGED <<config, node_id, state, clock, holds, issued>>

\* let now = self.get_time_since_epoch();
LegacyNow(t) ==
    /\ th[t].pc \in {"fast_now", "slow_now"}
    /\ th' = [th EXCEPT ![t].now = clock[th[t].gen],
                        ![t].pc = IF th[t].pc = "fast_now" THEN "fast_load" ELSE "slow_load"]
    /\ UNCHANGED <<config, node_id, state, clock, holds, issued>>

\* let last_ts = self.last_timestamp.load(Acquire), and in the slow path
\* let ts = now.max(last_ts).
LegacyLoad(t) ==
    /\ th[t].pc \in {"fast_load", "slow_load"}
    /\ LET last_ts == state[th[t].gen].last_timestamp IN
       th' = [th EXCEPT ![t].old_ts = last_ts,
                        ![t].new_ts = IF th[t].now > last_ts THEN th[t].now ELSE last_ts,
                        ![t].pc = IF th[t].pc = "fast_load" THEN "fast_try" ELSE "slow_try"]
    /\ UNCHANGED <<config, node_id, state, clock, holds, issued>>

LegacyTryPcs == {"fast_try", "slow_try", "publish_try"}

\* try_advance_timestamp, Ok: the CAS installed new_ts; the store of the
\* sequence is still to come.
LegacyAdvance(t) ==
    /\ th[t].pc \in LegacyTryPcs
    /\ th[t].new_ts > th[t].old_ts
    /\ state[th[t].gen].last_timestamp = th[t].old_ts
    /\ state' = [state EXCEPT ![th[t].gen].last_timestamp = th[t].new_ts]
    /\ th' = [th EXCEPT ![t].pc = "store"]
    /\ UNCHANGED <<config, node_id, clock, holds, issued>>

\* try_advance_timestamp, Err (compare_exchange_weak): the fast path goes to
\* the slow path, the slow path loops, the publishing loop loads again.
LegacyAdvanceLost(t) ==
    /\ th[t].pc \in LegacyTryPcs
    /\ th[t].new_ts > th[t].old_ts
    /\ th' = [th EXCEPT ![t].pc = IF th[t].pc = "publish_try" THEN "publish_load"
                                   ELSE "slow_now"]
    /\ UNCHANGED <<config, node_id, state, clock, holds, issued>>

\* The call returns create_snowid(timestamp, sequence).
LegacyReturn(t, timestamp, sequence) ==
    /\ issued' = Append(issued,
         [gen |-> th[t].gen, thread |-> t, timestamp |-> timestamp,
          sequence |-> sequence,
          id |-> create_snowid_fast(config, node_prefix(th[t].gen), timestamp, sequence)])
    /\ th' = [th EXCEPT ![t] = LegacyIdle]

\* self.sequence.store(0, Release); Some(self.create_snowid(new_ts, 0))
LegacyStore(t) ==
    /\ th[t].pc = "store"
    /\ state' = [state EXCEPT ![th[t].gen].sequence = 0]
    /\ LegacyReturn(t, th[t].new_ts, 0)
    /\ UNCHANGED <<config, node_id, clock, holds>>

\* let seq = self.sequence.fetch_add(1, ..): below max_sequence_id the call
\* returns (last_ts, seq + 1); otherwise the fast path goes to the slow
\* path and the slow path waits.
LegacyFetchAdd(t) ==
    /\ th[t].pc \in {"fast_try", "slow_try"}
    /\ ~(th[t].new_ts > th[t].old_ts)
    /\ LET seq == state[th[t].gen].sequence IN
       /\ state' = [state EXCEPT ![th[t].gen].sequence = (seq + 1) % Pow2(16)]
       /\ IF seq < max_sequence_id(config)
          THEN LegacyReturn(t, th[t].old_ts, seq + 1)
          ELSE /\ th' = [th EXCEPT ![t].pc = IF th[t].pc = "fast_try" THEN "slow_now"
                                             ELSE "wait"]
               /\ UNCHANGED issued
    /\ UNCHANGED <<config, node_id, clock, holds>>

\* let next_ts = self.wait_next_millis(ts, backoff_ms): returns a clock reading
\* above ts once there is one.
LegacyWait(t) ==
    /\ th[t].pc = "wait"
    /\ clock[th[t].gen] > th[t].old_ts
    /\ th' = [th EXCEPT ![t].new_ts = clock[th[t].gen], ![t].pc = "publish_load"]
    /\ UNCHANGED <<config, node_id, state, clock, holds, issued>>

\* let current_last = self.last_timestamp.load(Acquire);
\* if next_ts <= current_last { break; }
LegacyPublishLoad(t) ==
    /\ th[t].pc = "publish_load"
    /\ LET current_last == state[th[t].gen].last_timestamp IN
       th' = [th EXCEPT ![t].old_ts = current_last,
                        ![t].pc = IF th[t].new_ts <= current_last THEN "slow_now"
                                  ELSE "publish_try"]
    /\ UNCHANGED <<config, node_id, state, clock, holds, issued>>

LegacyStep(t) ==
    \/ LegacyBegin(t)
    \/ LegacyNow(t)
    \/ LegacyLoad(t)
    \/ LegacyAdvance(t)
    \/ LegacyAdvanceLost(t)
    \/ LegacyStore(t)
    \/ LegacyFetchAdd(t)
    \/ LegacyWait(t)
    \/ LegacyPublishLoad(t)

\* Two threads share a generator that is fresh or has part of a millisecond
\* used up.
InitLegacy ==
    /\ config \in {[BuilderNew EXCEPT !.node_bits = nb] : nb \in CoreNodeBits}
    /\ node_id = [g \in Gens |-> 1]
    /\ \E s \in {LegacyState(0, 0)}
              \cup {LegacyState(AgedTimestamp, q) :
                      q \in {max_sequence_id(config) - 1, max_sequence_id(config)}} :
         state = [g \in Gens |-> IF g = 1 THEN s ELSE LegacyState(0, 0)]
    /\ clock = [g \in Gens |-> 0]
    /\ issued = <<>>
    /\ holds = [t \in Threads |-> {1}]
    /\ th = [t \in Threads |-> LegacyIdle]

NextLegacy ==
    \/ \E t \in Threads : LegacyStep(t)
    \/ \E g \in Gens : Tick(g)

SpecLegacy == InitLegacy /\ [][NextLegacy]_vars

(***************************************************************************)
(* One caller of two generators that also takes apart the IDs it was       *)
(* given (extractor.rs).                                                   *)
(***************************************************************************)
ExtractorOps == {"timestamp", "node", "sequence", "decompose"}

\* generator.extract.timestamp(id), .node(id), .sequence(id), .decompose(id)
\* for an ID a generator returned: &self methods of a copy of the
\* configuration.
ExtractCall(t) ==
    /\ th[t].pc = "idle"
    /\ \E g \in holds[t], k \in 1..Len(issued), op \in ExtractorOps :
         LET id == issued[k].id IN
         th' = [th EXCEPT ![t] = SetupIdle(
                  [op |-> op, gen |-> g, id |-> id,
                   value |-> CASE op = "timestamp" -> <<Extract_timestamp(config, id)>>
                               [] op = "node" -> <<Extract_node(config, id)>>
                               [] op = "sequence" -> <<Extract_sequence(config, id)>>
                               [] op = "decompose" -> decompose(config, id)])]
    /\ UNCHANGED <<config, node_id, state, clock, holds, issued>>

InitFrame ==
    /\ InitNodes
    /\ config.node_bits \in CoreNodeBits

NextFrame ==
    \/ \E t \in Threads : ThreadStep(t)
    \/ \E t \in Threads : ExtractCall(t)
    \/ \E g \in Gens : Tick(g)

SpecFrame == InitFrame /\ [][NextFrame]_vars

(***************************************************************************)
(* Two generators of the same node and configuration, each called by the   *)
(* one caller and each reading its clock from the same sequence of         *)
(* readings: a reading taken by a generator is the next one of the         *)
(* sequence for that generator.                                            *)
(***************************************************************************)
\* Readings in the sequence.
StreamLen == 4
\* generate() calls of one behaviour, over both generators.
MaxStreamCalls == 4
\* Failed compare-exchanges of one call.
MaxLost == 1

\* The slot of th that holds the sequence of readings.
ClockSource == NThreads

Stream == th[ClockSource].stream

\* Mutant: every instance loads the state word of the first one.
LoadState_shared(g) == state[1]

\* self.state.load(Ordering::Acquire)
LoadState(g) == state[g]

\* A caller invokes generate() on one of the generators.
StreamBegin(t) ==
    /\ th[t].pc = "idle"
    /\ Len(issued) < MaxStreamCalls
    /\ \E g \in holds[t] :
         th' = [th EXCEPT ![t] = [pc |-> "now", gen |-> g, slow |-> FALSE,
                                  now |-> 0, from_timestamp |-> 0, lost |-> 0]]
    /\ UNCHANGED <<config, node_id, state, clock, holds, issued>>

\* let now = self.now_ms(): the generator's next reading.
StreamNow(t) ==
    /\ th[t].pc = "now"
    /\ clock[th[t].gen] < Len(Stream)
    /\ th' = [th EXCEPT ![t].now = Stream[clock[th[t].gen] + 1], ![t].pc = "try"]
    /\ clock' = [clock EXCEPT ![th[t].gen] = clock[th[t].gen] + 1]
    /\ UNCHANGED <<config, node_id, state, holds, issued>>

\* The CAS succeeded: the call returns the ID of the pair it published.
StreamPublish(t, new_state, timestamp, sequence) ==
    /\ state' = [state EXCEPT ![th[t].gen] = new_state]
    /\ issued' = Append(issued,
         [gen |-> th[t].gen, timestamp |-> timestamp, sequence |-> sequence,
          id |-> assemble_id(th[t].gen, timestamp, sequence), lost |-> th[t].lost])
    /\ th' = [th EXCEPT ![t] = SetupIdle(NoResult)]
    /\ UNCHANGED <<config, node_id, clock, holds>>

\* try_claim_millisecond, CAS won.
StreamClaim(t) ==
    /\ th[t].pc = "try"
    /\ time_advanced(th[t].now, LoadState(th[t].gen))
    /\ StreamPublish(t, claimed_state(th[t].now), th[t].now, 0)

\* try_claim_millisecond, the weak CAS failed: slow path, or `continue` in it.
StreamClaimLost(t) ==
    /\ th[t].pc = "try"
    /\ time_advanced(th[t].now, LoadState(th[t].gen))
    /\ th[t].lost < MaxLost
    /\ th' = [th EXCEPT ![t].pc = "now", ![t].slow = TRUE, ![t].lost = th[t].lost + 1]
    /\ UNCHANGED <<config, node_id, state, clock, holds, issued>>

\* try_increment_sequence, CAS won.
StreamIncrement(t) ==
    LET current == LoadState(th[t].gen) IN
    /\ th[t].pc = "try"
    /\ ~time_advanced(th[t].now, current)
    /\ sequence_available(current, max_seq)
    /\ StreamPublish(t, incremented_state(current), State_timestamp(current),
                     new_seq(current))

\* try_increment_sequence returned None (sequence exhausted, or the weak CAS
\* failed): the fast path enters the slow path, the slow path waits.
StreamIncrementNone(t) ==
    LET current == LoadState(th[t].gen) IN
    /\ th[t].pc = "try"
    /\ ~time_advanced(th[t].now, current)
    /\ sequence_available(current, max_seq) => th[t].lost < MaxLost
    /\ th' = [th EXCEPT ![t].pc = IF th[t].slow THEN "wait" ELSE "now",
                        ![t].slow = TRUE,
                        ![t].from_timestamp = State_timestamp(current),
                        ![t].lost = IF sequence_available(current, max_seq)
                                    THEN th[t].lost + 1 ELSE th[t].lost]
    /\ UNCHANGED <<config, node_id, state, clock, holds, issued>>

\* wait_next_millis: one reading of the clock, in the spin loop or after a
\* sleep; the routine returns at the first reading above from_timestamp.
StreamWait(t) ==
    /\ th[t].pc = "wait"
    /\ clock[th[t].gen] < Len(Stream)
    /\ th' = [th EXCEPT ![t].pc =
                IF clock_advanced(Stream[clock[th[t].gen] + 1], th[t].from_timestamp)
                THEN "now" ELSE "wait"]
    /\ clock' = [clock EXCEPT ![th[t].gen] = clock[th[t].gen] + 1]
    /\ UNCHANGED <<config, node_id, state, holds, issued>>

\* Both generators are built alike and have read nothing yet.
InitStream ==
    /\ config \in {[BuilderNew EXCEPT !.node_bits = nb] : nb \in CoreNodeBits}
    /\ \E n \in {0, max_node_id(config)} : node_id = [g \in Gens |-> n]
    /\ \E s \in StartStates(config) : state = [g \in Gens |-> s]
    /\ clock = [g \in Gens |-> 0]
    /\ issued = <<>>
    /\ holds = [t \in Threads |-> IF t = SetupThread THEN Gens ELSE {}]
    /\ \E stream \in [1..StreamLen -> 0..MaxClock] :
         th = [t \in Threads |->
                 IF t = ClockSource THEN [pc |-> "idle", stream |-> stream]
                 ELSE SetupIdle(NoResult)]

NextStream ==
    \/ StreamBegin(SetupThread)
    \/ StreamNow(SetupThread)
    \/ StreamClaim(SetupThread)
    \/ StreamClaimLost(SetupThread)
    \/ StreamIncrement(SetupThread)
    \/ StreamIncrementNone(SetupThread)
    \/ StreamWait(SetupThread)

SpecStream == InitStream /\ [][NextStream]_vars

(***************************************************************************)
(* The extractor on any 64-bit value (extractor.rs) and the state word on  *)
(* any timestamp of 48 bits (generator/state.rs).                          *)
(***************************************************************************)
\* Limbs of the ids given to the extractor: the ends of a limb, the ends of
\* the 6 bits below bit 22 and alternating bit patterns.
IdLimbs == {0, 1, 63, 64, 21845, 43690, 65472, 65535}

IdSamples == [1..4 -> IdLimbs]

\* The caller passes one id to timestamp, node, sequence and decompose.
ExtractAll(t) ==
    /\ th[t].pc = "idle" /\ th[t].last = NoResult
    /\ \E id \in IdSamples :
         th' = [th EXCEPT ![t] = SetupIdle(
                  [op |-> "extract", id |-> id,
                   timestamp |-> timestamp_u64(config, id),
                   node |-> node_u64(config, id),
                   sequence |-> sequence_u64(config, id),
                   decompose |-> decompose_u64(config, id)])]
    /\ UNCHANGED <<config, node_id, state, clock, holds, issued>>

\* An extractor of any valid configuration.
InitExtract ==
    /\ config \in {[BuilderNew EXCEPT !.node_bits = nb] : nb \in ValidNodeBits}
    /\ node_id = [g \in Gens |-> 0]
    /\ state = [g \in Gens |-> State_new(0, 0)]
    /\ clock = [g \in Gens |-> 0]
    /\ issued = <<>>
    /\ holds = [t \in Threads |-> {}]
    /\ th = [t \in Threads |-> SetupIdle(NoResult)]

NextExtract == ExtractAll(SetupThread)

SpecExtract == InitExtract /\ [][NextExtract]_vars

\* Limbs of the timestamps and raw words given to State.
StateLimbs == {0, 1, 32768, 65535}

\* Timestamps below 2^48.
StateTimestamps == {<<0, a, b, c>> : a \in StateLimbs, b \in StateLimbs, c \in StateLimbs}

StateSequences == {0, 1, 255, 256, 32768, 65535}

\* The pairs compared with each other.
OrderedTimestamps == {<<0, a, b, c>> : a \in {0, 65535}, b \in {0, 65535}, c \in {0, 1, 65535}}

OrderedSequences == {0, 1, 65535}

\* Self(raw)
State_from_raw_u64(raw) == raw

\* self.0
State_raw_u64(self) == self

\* State::new(ts, s), and timestamp(), sequence() and raw() of the result.
StateNew(t) ==
    /\ th[t].pc = "idle" /\ th[t].last = NoResult
    /\ \E ts \in StateTimestamps, s \in StateSequences :
         LET st == State_new_u64(ts, s) IN
         th' = [th EXCEPT ![t] = SetupIdle(
                  [op |-> "new", timestamp |-> ts, sequence |-> s,
                   got_timestamp |-> State_timestamp_u64(st),
                   got_sequence |-> State_sequence_u64(st),
                   raw |-> State_raw_u64(st)])]
    /\ UNCHANGED <<config, node_id, state, clock, holds, issued>>

\* State::from_raw(x).raw()
StateFromRaw(t) ==
    /\ th[t].pc = "idle" /\ th[t].last = NoResult
    /\ \E x \in [1..4 -> StateLimbs] :
         th' = [th EXCEPT ![t] = SetupIdle(
                  [op |-> "from_raw", x |-> x,
                   raw |-> State_raw_u64(State_from_raw_u64(x))])]
    /\ UNCHANGED <<config, node_id, state, clock, holds, issued>>

\* Two states are built and their raw words compared, as the CAS and the
\* ordering of the words do.
StateCompare(t) ==
    /\ th[t].pc = "idle" /\ th[t].last = NoResult
    /\ \E a_ts \in OrderedTimestamps, b_ts \in OrderedTimestamps,
          a_s \in OrderedSequences, b_s \in OrderedSequences :
         LET a == State_raw_u64(State_new_u64(a_ts, a_s))
             b == State_raw_u64(State_new_u64(b_ts, b_s)) IN
         th' = [th EXCEPT ![t] = SetupIdle(
                  [op |-> "compare", a_timestamp |-> a_ts, a_sequence |-> a_s,
                   b_timestamp |-> b_ts, b_sequence |-> b_s,
                   raw_less |-> u64_less(a, b), raw_equal |-> (a = b)])]
    /\ UNCHANGED <<config, node_id, state, clock, holds, issued>>

NextState ==
    \/ StateNew(SetupThread)
    \/ StateFromRaw(SetupThread)
    \/ StateCompare(SetupThread)

SpecState == InitExtract /\ [][NextState]_vars

(***************************************************************************)
(* Properties.                                                             *)
(***************************************************************************)
Idx == 1..Len(issued)

\* The entries of generator g's calls, in CAS order.
OfGen(g) == {k \in Idx : issued[k].gen = g}

IssuedPair(k) == <<issued[k].timestamp, issued[k].sequence>>

\* Two calls overlapped: the later CAS belongs to a call begun before the
\* earlier one returned, made by another thread on the same generator.
Overlapped(i, j) ==
    /\ i < j
    /\ issued[i].gen = issued[j].gen
    /\ issued[i].thread # issued[j].thread
    /\ issued[j].began < i

\* C1: all IDs returned by calls on one generator, from any threads in any
\* interleaving, are pairwise distinct, and so are their (timestamp,
\* sequence) pairs; no call obtains again the pair its CAS replaced.
C1_Uniqueness ==
    /\ \A i, j \in Idx :
         (i # j /\ issued[i].gen = issued[j].gen) =>
             /\ issued[i].id # issued[j].id
             /\ IssuedPair(i) # IssuedPair(j)
    /\ \A k \in Idx : IssuedPair(k) # Pair(issued[k].replaced)

\* Two overlapping calls of different threads both returned, in the same
\* millisecond.
C1_Witness ==
    \E i, j \in Idx :
        /\ Overlapped(i, j)
        /\ issued[i].timestamp = issued[j].timestamp

\* C2: if call A returned before call B began (same generator), A's ID is
\* strictly less than B's ID, whatever the clock did in between.
C2_Monotonic ==
    \A j \in Idx : \A i \in 1..issued[j].began :
        issued[i].gen = issued[j].gen => issued[i].id < issued[j].id

\* B began after A returned and read a clock value below A's timestamp.
C2_Witness ==
    \E j \in Idx : \E i \in 1..issued[j].began :
        /\ issued[i].gen = issued[j].gen
        /\ issued[j].now < issued[i].timestamp

\* A successful CAS of a call on generator g is taken in this step.
CasSucceeds(g) ==
    /\ Len(issued') = Len(issued) + 1
    /\ issued'[Len(issued')].gen = g

\* C3: the published pair only moves forward: every successful CAS installs a
\* lexicographically greater pair, the timestamp never decreases, and the
\* sequence becomes 0 only together with a strictly greater timestamp; the
\* state word changes in no other way.
C3_StateMovesForward ==
    [][\A g \in Gens :
         LET old == Pair(state[g])
             new == Pair(state'[g])
         IN /\ state'[g] # state[g] => CasSucceeds(g)
            /\ CasSucceeds(g) =>
                 /\ PairLess(old, new)
                 /\ new[1] >= old[1]
                 /\ (new[2] = 0 => new[1] > old[1])
      ]_vars

\* A millisecond was claimed over a pair whose sequence was in use, and an
\* increment was published as well.
C3_Witness ==
    /\ \E k \in Idx : issued[k].by_claim /\ State_sequence(issued[k].replaced) > 0
    /\ \E k \in Idx : ~issued[k].by_claim

\* C4: a call that read a clock value below the published timestamp returns
\* an ID whose timestamp is at least that published timestamp, and the
\* timestamps of the IDs of one generator never decrease in issue order.
C4_ClockRegressionSafe ==
    /\ \A k \in Idx :
         issued[k].behind >= 0 => issued[k].timestamp >= issued[k].behind
    /\ \A i, j \in Idx :
         (i < j /\ issued[i].gen = issued[j].gen) =>
             issued[i].timestamp <= issued[j].timestamp

\* A call saw the clock behind the published timestamp and returned an ID.
C4_Witness ==
    \E k \in Idx : issued[k].behind >= 0 /\ issued[k].now < issued[k].behind

C6_SortedIsCasOrder ==
    \A i, j \in Idx :
        (i < j /\ issued[i].gen = issued[j].gen) =>
            /\ issued[i].id < issued[j].id
            /\ (issued[i].timestamp = issued[j].timestamp
                  => issued[i].sequence < issued[j].sequence)

\* Two overlapping calls returned IDs of different milliseconds.
C6_Witness ==
    \E i, j \in Idx :
        /\ Overlapped(i, j)
        /\ issued[i].timestamp # issued[j].timestamp

\* The millisecond of entry k was claimed by a clock reading above T.
ClaimedAbove(k, T) ==
    \E c \in 1..k :
        /\ issued[c].gen = issued[k].gen
        /\ issued[c].by_claim
        /\ issued[c].timestamp = issued[k].timestamp
        /\ issued[c].now > T

\* C7 as claimed: a call that found (T, max_seq) published with its clock at
\* most T returns an ID with timestamp above T and sequence 0.
C7_ExhaustionGivesSequenceZero ==
    \A k \in Idx :
        issued[k].exhausted >= 0 =>
            /\ issued[k].timestamp > issued[k].exhausted
            /\ issued[k].sequence = 0

\* C7, amended: such a call returns only an ID of a millisecond that a clock
\* reading above T claimed, so with timestamp above T; its sequence is 0 when
\* its own CAS claimed that millisecond, and otherwise follows the sequence
\* of another thread's call that published in that millisecond during the
\* call.  No sequence above max_seq is issued and no pair is issued twice,
\* so at most max_seq + 1 IDs carry one timestamp.
C7_ExhaustionAdvancesTimestamp ==
    /\ \A k \in Idx :
         issued[k].exhausted >= 0 =>
             /\ issued[k].timestamp > issued[k].exhausted
             /\ ClaimedAbove(k, issued[k].exhausted)
             /\ issued[k].by_claim => issued[k].sequence = 0
             /\ ~issued[k].by_claim =>
                  \E c \in (issued[k].began + 1)..(k - 1) :
                      /\ issued[c].gen = issued[k].gen
                      /\ issued[c].thread # issued[k].thread
                      /\ issued[c].timestamp = issued[k].timestamp
                      /\ issued[c].sequence = issued[k].sequence - 1
    /\ \A k \in Idx : issued[k].sequence <= max_seq
    /\ \A i, j \in Idx :
         (i < j /\ issued[i].gen = issued[j].gen) => IssuedPair(i) # IssuedPair(j)

\* A call found the sequence exhausted, waited for the clock and claimed the
\* next millisecond.
C7_Witness ==
    \E k \in Idx :
        /\ issued[k].exhausted >= 0
        /\ issued[k].by_claim
        /\ issued[k].sequence = 0

\* C8: for every node width 6..16 the published sequence and the sequence of
\* every issued ID are at most max_sequence_id = 2^(22 - node_bits) - 1.
C8_SequenceBounded ==
    /\ max_seq = Pow2(TOTAL_NODE_AND_SEQUENCE_BITS - config.node_bits) - 1
    /\ \A g \in Gens : State_sequence(state[g]) <= max_seq
    /\ \A k \in Idx :
         /\ issued[k].sequence <= max_seq
         /\ Extract_sequence(config, issued[k].id) = issued[k].sequence

\* The last sequence of a millisecond was issued and the next call moved on.
C8_Witness ==
    \E i, j \in Idx :
        /\ i < j
        /\ issued[i].gen = issued[j].gen
        /\ issued[i].sequence = max_seq
        /\ issued[j].exhausted >= 0

\* C9: the node field of every ID is the node_id of its generator, and two
\* generators of one configuration with different node_ids never issue the
\* same ID.
C9_NodeIsolation ==
    /\ \A k \in Idx : Extract_node(config, issued[k].id) = node_id[issued[k].gen]
    /\ \A i, j \in Idx :
         issued[i].gen # issued[j].gen => issued[i].id # issued[j].id

\* Both generators issued the same (timestamp, sequence) pair.
C9_Witness ==
    \E i, j \in Idx :
        /\ issued[i].gen # issued[j].gen
        /\ IssuedPair(i) = IssuedPair(j)

\* The entry issued next after entry i by the same generator.
NextOfGen(i, j) ==
    /\ i < j
    /\ issued[i].gen = issued[j].gen
    /\ \A k \in (i + 1)..(j - 1) : issued[k].gen # issued[i].gen

\* C10: of two IDs issued one after the other under the same clock reading,
\* the second has the same timestamp and the next sequence; an ID whose
\* timestamp differs from the one issued before it has a greater timestamp
\* and sequence 0; a fresh generator reading a clock T > 0 issues (T, 0).
C10_SequenceSteps ==
    /\ \A i, j \in Idx :
         NextOfGen(i, j) =>
             /\ issued[i].now = issued[j].now =>
                  /\ issued[j].timestamp = issued[i].timestamp
                  /\ issued[j].sequence = issued[i].sequence + 1
             /\ issued[j].timestamp # issued[i].timestamp =>
                  /\ issued[j].timestamp > issued[i].timestamp
                  /\ issued[j].sequence = 0
    /\ \A k \in Idx :
         (issued[k].replaced = State_new(0, 0) /\ issued[k].now > 0) =>
             IssuedPair(k) = <<issued[k].now, 0>>

\* A fresh generator issued sequences 0 and 1 under one clock reading T > 0.
C10_Witness ==
    \E i, j \in Idx :
        /\ NextOfGen(i, j)
        /\ issued[i].replaced = State_new(0, 0)
        /\ issued[i].now > 0
        /\ issued[j].now = issued[i].now
        /\ issued[i].sequence = 0
        /\ issued[j].sequence = 1

\* C11: under a clock that never goes back, the timestamp of the ID a call
\* returns is at least the clock at the call's invocation and at most the
\* clock at its successful CAS, hence at most the clock at its return and at
\* any later time; this also holds for calls overlapping calls of another
\* thread.
C11_TimestampWithinCall ==
    [][\A g \in Gens :
         CasSucceeds(g) =>
             LET e == issued'[Len(issued')]
             IN /\ th[e.thread].invoked <= e.timestamp
                /\ e.timestamp <= clock[g]
                /\ \A k \in OfGen(g) : issued[k].timestamp <= clock[g]
      ]_vars

\* A call overlapped another thread's call and returned an ID of a
\* millisecond that began while it ran; the clock has moved on since.
C11_Witness ==
    \E i, j \in Idx :
        /\ Overlapped(i, j)
        /\ issued[j].timestamp > issued[i].timestamp
        /\ clock[issued[j].gen] > issued[j].timestamp

WaitPcs == {"wait_spin", "wait_yield", "wait_sleep"}

\* C12: wait_next_millis leaves its loop only in a step that reads the clock
\* strictly above from_timestamp, and the value it returns is that reading;
\* under every spin setting (enabled or not, spin_loops and spin_yield_every
\* zero or positive) and every initial backoff.
C12_WaitReturnsAdvancedClock ==
    [][\A t \in Threads :
         (th[t].pc \in WaitPcs /\ th'[t].pc \notin WaitPcs) =>
             /\ clock[th[t].gen] > th[t].from_timestamp
             /\ IsDirectCall(th[t]) =>
                  /\ th'[t].pc = "wait_done"
                  /\ th'[t].result = clock[th[t].gen]
                  /\ th'[t].result > th'[t].from_timestamp
      ]_vars

\* A wait with spinning and yielding enabled returned after six sleeps that
\* found the clock not advanced.
C12_Witness ==
    /\ config.spin_enabled /\ config.spin_loops > 1 /\ config.spin_yield_every > 0
    /\ th[1].pc = "wait_done"
    /\ th[1].from_timestamp > 0
    /\ th[1].result > th[1].from_timestamp
    /\ th[1].backoff_ms = 64

\* The outcome of the setup thread's last operation, if that was op.
LastIs(op) == HasLast(th[SetupThread]) /\ th[SetupThread].last.op = op

Last == th[SetupThread].last

\* C13: with_config(node_id, config) returns the error value
\* InvalidNodeId{node_id, max = 2^node_bits - 1} exactly when node_id exceeds
\* the largest node of the configuration, and constructs no generator then;
\* otherwise it returns a generator whose state is (0,0) and whose node_id
\* is the one given.
C13_WithConfigValidatesNode ==
    LastIs("with_config") =>
        LET max == Pow2(config.node_bits) - 1 IN
        /\ Last.ok <=> Last.node_id <= max
        /\ ~Last.ok =>
             /\ Last.err = <<"InvalidNodeId", Last.node_id, max>>
             /\ Last.gen \notin holds[SetupThread]
        /\ Last.ok =>
             /\ Last.err = <<>>
             /\ Last.gen \in holds[SetupThread]
             /\ Pair(state[Last.gen]) = <<0, 0>>
             /\ node_id[Last.gen] = Last.node_id

\* The largest node of the narrowest configuration was accepted for one
\* generator, and the node after it was then rejected for the other.
C13_Witness ==
    /\ LastIs("with_config")
    /\ config.node_bits = MIN_NODE_BITS
    /\ ~Last.ok
    /\ Last.node_id = max_node_id(config) + 1
    /\ \E g \in holds[SetupThread] : node_id[g] = max_node_id(config)

\* C14: builder().node_bits(n) returns Err(InvalidNodeBits{bits: n}) exactly
\* when n < 6 or n > 16; for 6 <= n <= 16 the configuration built reports
\* node_bits() = n.
C14_NodeBitsValidated ==
    LastIs("node_bits") =>
        /\ Last.ok <=> (Last.bits >= 6 /\ Last.bits <= 16)
        /\ ~Last.ok => Last.err = <<"InvalidNodeBits", Last.bits>>
        /\ Last.ok => config.node_bits = Last.bits

\* The width just below the range was rejected.
C14_Witness ==
    /\ LastIs("node_bits")
    /\ Last.bits = MIN_NODE_BITS - 1
    /\ ~Last.ok

\* C15: every configuration the builder produces has node_bits in 6..16,
\* node_bits + sequence_bits = 22 (and 42 timestamp bits make 64),
\* timestamp_shift = 22, node_shift = sequence_bits,
\* max_node_id = 2^node_bits - 1 and max_sequence_id = 2^(22-node_bits) - 1,
\* both representable in 16 bits.
C15_BitLayout ==
    /\ config.node_bits >= 6 /\ config.node_bits <= 16
    /\ config.node_bits + sequence_bits(config) = 22
    /\ TIMESTAMP_BITS + config.node_bits + sequence_bits(config) = 64
    /\ timestamp_shift(config) = 22
    /\ node_shift(config) = sequence_bits(config)
    /\ max_node_id(config) = 2 ^ config.node_bits - 1
    /\ max_sequence_id(config) = 2 ^ (22 - config.node_bits) - 1
    /\ max_node_id(config) <= 65535
    /\ max_sequence_id(config) <= 65535

\* The widest configuration was built: its largest node is the largest u16.
C15_Witness ==
    /\ LastIs("node_bits")
    /\ Last.ok
    /\ config.node_bits = MAX_NODE_BITS
    /\ max_node_id(config) = 65535

\* C16: for every node width 6..16 and every triple (ts, node, seq) within
\* the widths, decomposing the assembled ID returns exactly the triple; and
\* every ID issued by generate() decomposes into its timestamp, its
\* generator's node and its sequence, and is reproduced by assembling them.
C16_DecomposeRoundTrip ==
    /\ LastIs("decompose") => Last.parts = Last.triple
    /\ \A k \in Idx :
         LET parts == decompose(config, issued[k].id) IN
         /\ parts = <<issued[k].timestamp, node_id[issued[k].gen],
                      issued[k].sequence>>
         /\ create_snowid_fast(config, Shl(parts[2], node_shift(config)),
                               parts[1], parts[3]) = issued[k].id
         /\ parts = <<Extract_timestamp(config, issued[k].id),
                      Extract_node(config, issued[k].id),
                      Extract_sequence(config, issued[k].id)>>

\* After IDs were issued, the triple of the largest timestamp, node and
\* sequence of the narrowest node width was assembled and decomposed.
C16_Witness ==
    /\ LastIs("decompose")
    /\ config.node_bits = MIN_NODE_BITS
    /\ Last.triple = <<MaxModelTimestamp, max_node_id(config), max_sequence_id(config)>>
    /\ \E k \in Idx : issued[k].timestamp > 0 /\ node_id[issued[k].gen] > 0

\* The characters 0-9, A-Z, a-z.
Alphabet == (48..57) \cup (65..90) \cup (97..122)

\* C17: decode(encode(x)) = x for 64-bit values x up to u64::MAX, and
\* encode(x) is a non-empty string of at most 11 characters of the alphabet
\* 0-9, A-Z, a-z.
C17_Base62RoundTrip ==
    /\ LastIs("encode") =>
         /\ Len(Last.out) >= 1
         /\ Len(Last.out) <= 11
         /\ \A k \in 1..Len(Last.out) : Last.out[k] \in Alphabet
    /\ LastIs("decode_encoded") =>
         /\ Last.result.ok
         /\ Last.result.val = Last.x

\* u64::MAX was encoded into 11 characters and decoded again.
C17_Witness ==
    /\ LastIs("decode_encoded")
    /\ Last.x = <<65535, 65535, 65535, 65535>>
    /\ Len(Last.input) = 11
    /\ Last.result.ok

\* The value of a character of the alphabet as a base-62 digit.
DigitOf(c) == IF c <= 57 THEN c - 48 ELSE IF c <= 90 THEN c - 55 ELSE c - 61

RECURSIVE StripZeros(_)
StripZeros(digits) ==
    IF digits # <<>> /\ Head(digits) = 0 THEN StripZeros(Tail(digits)) ELSE digits

\* The base-62 digits of 2^64 - 1.
U64MaxDigits == [k \in 1..11 |-> DigitOf(<<76, 121, 103, 72, 97, 49, 54, 65, 72, 89, 70>>[k])]

\* A string of characters of the alphabet denotes a value above 2^64 - 1.
ExceedsU64(str) ==
    LET digits == StripZeros([k \in 1..Len(str) |-> DigitOf(str[k])]) IN
    \/ Len(digits) > 11
    \/ /\ Len(digits) = 11
       /\ \E k \in 1..11 :
            /\ digits[k] > U64MaxDigits[k]
            /\ \A j \in 1..(k - 1) : digits[j] = U64MaxDigits[j]

\* The outcome the claim states for decode(str), reading the string from
\* left to right: the first failure decides.
ClaimedDecodeError(str) ==
    IF str = <<>> THEN <<"EmptyString">>
    ELSE LET bad == {k \in 1..Len(str) : str[k] \notin Alphabet}
             stop == IF bad = {} THEN Len(str) + 1
                     ELSE CHOOSE k \in bad : \A j \in bad : k <= j
         IN IF ExceedsU64(SubSeq(str, 1, stop - 1)) THEN <<"Overflow">>
            ELSE IF bad # {} THEN <<"InvalidCharacter", str[stop]>>
            ELSE <<>>

\* C18: decode returns EmptyString for the empty input, InvalidCharacter(c)
\* for the first character c outside the alphabet, Overflow when the value
\* would exceed 2^64 - 1, and Ok only otherwise; decode_base62 and
\* decompose_base62 return the same errors and leave the generator's state
\* word as it was.
C18_DecodeErrors ==
    (LastIs("decode") \/ LastIs("decode_base62") \/ LastIs("decompose_base62")) =>
        /\ Last.result.err = ClaimedDecodeError(Last.input)
        /\ Last.result.ok <=> ClaimedDecodeError(Last.input) = <<>>
        /\ ~LastIs("decode") => state[Last.gen] = Last.state_before

\* C19: generate() is inside the wait routine only after it observed the
\* sequence at max_sequence_id with a clock reading not above the published
\* timestamp; a CAS lost below max_sequence_id leads to a re-read, never to
\* the wait.
C19_WaitOnlyWhenExhausted ==
    \A t \in Threads :
        (th[t].pc \in WaitPcs /\ ~IsDirectCall(th[t])) =>
            /\ State_sequence(th[t].current) = max_seq
            /\ th[t].now <= State_timestamp(th[t].current)

\* The single retry loop: where a thread stands in it.
LoopPhase(r) ==
    IF r.pc \in {"gen_now", "slow_now"} \cup WaitPcs THEN "now"
    ELSE IF r.pc \in {"gen_load", "slow_load"} THEN "load"
    ELSE IF r.pc \in {"gen_try", "slow_try"} THEN "try"
    ELSE "idle"

\* One step of thread t as a step of the single retry loop
\* (read the clock; load; claim, increment, or go round).
LoopStep(t) ==
    LET g == IF th[t].pc = "idle" THEN th'[t].gen ELSE th[t].gen
        old == Pair(state[g])
        before == LoopPhase(th[t])
        after == LoopPhase(th'[t])
    IN
    \/ /\ before = "idle" /\ after = "now"
       /\ UNCHANGED <<state, issued>>
    \/ /\ before = "now" /\ after = "load"
       /\ th'[t].now = clock[g] /\ th'[t].current = th[t].current
       /\ UNCHANGED <<state, issued>>
    \/ /\ before = "load" /\ after = "try"
       /\ th'[t].current = state[g] /\ th'[t].now = th[t].now
       /\ UNCHANGED <<state, issued>>
    \/ /\ before = "try" /\ after = "now"
       /\ UNCHANGED <<state, issued>>
    \/ /\ before = "try" /\ after = "idle"
       /\ state[g] = th[t].current
       /\ \/ /\ th[t].now > old[1]
             /\ Pair(state'[g]) = <<th[t].now, 0>>
          \/ /\ th[t].now <= old[1]
             /\ old[2] < Pow2(TOTAL_NODE_AND_SEQUENCE_BITS - config.node_bits) - 1
             /\ Pair(state'[g]) = <<old[1], old[2] + 1>>
       /\ \A h \in Gens \ {g} : state'[h] = state[h]
       /\ Len(issued') = Len(issued) + 1
       /\ SubSeq(issued', 1, Len(issued)) = issued
       /\ LET e == issued'[Len(issued')] IN
          /\ e.gen = g /\ e.thread = t
          /\ <<e.timestamp, e.sequence>> = Pair(state'[g])
          /\ decompose(config, e.id) = <<e.timestamp, node_id[g], e.sequence>>
    \/ /\ before = after
       /\ before # "idle" => (th'[t].now = th[t].now /\ th'[t].current = th[t].current)
       /\ UNCHANGED <<state, issued>>

TryPcs == {"gen_try", "slow_try"}

\* Thread t's CAS succeeds in this step.
CasBy(t) ==
    /\ Len(issued') = Len(issued) + 1
    /\ issued'[Len(issued')].thread = t

\* C21: a call returns in the step of its successful CAS and in no other, so
\* it performs exactly one; the ID returned is assembled from the pair that
\* CAS installed; a failed CAS attempt leaves the state word unchanged; and
\* the state word changes only in a CAS from the value the caller observed.
C21_OneCasPerCall ==
    [][/\ \A t \in Threads :
            /\ (th[t].pc # "idle" /\ th'[t].pc = "idle") <=> CasBy(t)
            /\ CasBy(t) =>
                 LET e == issued'[Len(issued')]
                     g == e.gen
                 IN /\ th[t].pc \in TryPcs /\ th[t].gen = g
                    /\ state[g] = th[t].current
                    /\ state'[g] # state[g]
                    /\ Pair(state'[g]) = <<e.timestamp, e.sequence>>
                    /\ decompose(config, e.id) = <<e.timestamp, node_id[g], e.sequence>>
                    /\ \A h \in Gens \ {g} : state'[h] = state[h]
            /\ (th[t].pc \in TryPcs /\ th'[t].pc \notin TryPcs \cup {"idle"})
                 => state' = state
       /\ state' # state => \E t \in Threads : CasBy(t)
       /\ \A i, j \in Idx :
            (i # j /\ issued[i].thread = issued[j].thread)
                => issued[i].began # issued[j].began
      ]_vars

\* A call lost the CAS of its claim to another call that claimed over the
\* same observed value, and goes on to its next attempt.
C21_Witness ==
    \E t \in Threads :
        /\ th[t].pc = "slow_now"
        /\ time_advanced(th[t].now, th[t].current)
        /\ \E k \in Idx :
             /\ issued[k].gen = th[t].gen
             /\ issued[k].thread # t
             /\ issued[k].by_claim
             /\ issued[k].replaced = th[t].current

\* Thread t attempts a CAS in this step and the attempt fails: it leaves its
\* try position without returning, after a claim or after an increment that
\* the sequence allowed.
CasFails(t) ==
    /\ th[t].pc \in TryPcs
    /\ th'[t].pc \notin TryPcs \cup {"idle"}
    /\ \/ time_advanced(th[t].now, th[t].current)
       \/ sequence_available(th[t].current, max_seq)

\* C22: whenever a CAS attempt inside generate() fails, the state word
\* differs from the value the caller observed.
C22_FailedCasSawChange ==
    [][\A t \in Threads :
         CasFails(t) => state[th[t].gen] # th[t].current]_vars

\* C22, amended: a CAS succeeds only while the state word holds the value the
\* caller observed; a failed attempt leaves the state word as it was; and
\* when the state word differs from the observed value at the attempt, a call
\* of another thread published it after this call began, and it is ahead of
\* the observed value.
C22_CasComparesObserved ==
    [][\A t \in Threads :
         LET g == th[t].gen IN
         /\ CasBy(t) => state[g] = th[t].current
         /\ CasFails(t) => state' = state
         /\ (th[t].pc \in TryPcs /\ state[g] # th[t].current) =>
              /\ ~CasBy(t)
              /\ PairLess(Pair(th[t].current), Pair(state[g]))
              /\ \E k \in OfGen(g) :
                   /\ k > th[t].began
                   /\ issued[k].thread # t
                   /\ IssuedPair(k) = Pair(state[g])
      ]_vars

\* A CAS attempt failed although the state word still held the value the
\* call had observed, which an earlier CAS of another thread had published.
C22_Witness ==
    \E t \in Threads :
        /\ th[t].pc = "slow_now"
        /\ time_advanced(th[t].now, th[t].current)
        /\ state[th[t].gen] = th[t].current
        /\ \E k \in OfGen(th[t].gen) :
             /\ issued[k].thread # t
             /\ IssuedPair(k) = Pair(th[t].current)

\* Some call under way could go ahead: the clock is past the published
\* timestamp of its generator, or the published sequence is below the
\* maximum.
CanGoAhead ==
    \E t \in InFlight :
        LET g == th[t].gen IN
        \/ clock[g] > State_timestamp(state[g])
        \/ State_sequence(state[g]) < max_seq

\* C23: from any state where some thread is executing generate() and the
\* clock is past the published timestamp or the published sequence is below
\* max_sequence_id, some call returns after finitely many steps, none of
\* which is a sleep.
C23_LockFreeProgress ==
    \A n \in 0..MaxCalls :
        (Len(issued) = n /\ CanGoAhead) ~> (Len(issued) > n)

\* C24: within one call of the wait routine the spin phase comes first and
\* makes at most spin_loops clock checks, and once the routine has reached
\* its sleep it only sleeps and re-checks until it returns: it never goes
\* back to the spin phase.
C24_SpinThenSleepOnly ==
    [][\A t \in Threads :
         /\ th[t].pc \in {"wait_spin", "wait_yield"} =>
              /\ config.spin_enabled
              /\ th[t].i < config.spin_loops
         /\ th[t].pc = "wait_sleep" =>
              th'[t].pc \notin {"wait_spin", "wait_yield"}
      ]_vars

\* The k-th sleep of a wait that began with backoff b.
KthSleep(b, k) == IF b * Pow2(k - 1) < MAX_BACKOFF_MS THEN b * Pow2(k - 1) ELSE MAX_BACKOFF_MS

\* Twice x as a u64 when that is at most 100, and 100 otherwise.
TwiceUpTo100(x) ==
    IF x[1] = 0 /\ x[2] = 0 /\ x[3] = 0 /\ x[4] + x[4] <= 100
    THEN <<0, 0, 0, x[4] + x[4]>>
    ELSE <<0, 0, 0, 100>>

SpinIterationsDone(r) ==
    IF r.result[1] = "Some" THEN Len(r.reads) - 1 ELSE Len(r.reads)

\* C26: spin_wait returns None without reading the clock when spinning is
\* disabled or spin_loops is 0; otherwise it reads the clock at most
\* spin_loops times, returns Some(t) for the first reading t above
\* from_timestamp, None if no reading is above it, and yields exactly after
\* the iterations i with i mod spin_yield_every = spin_yield_every - 1
\* (never when spin_yield_every is 0).
C26_SpinWaitContract ==
    LET r == th[SetupThread]
        y == config.spin_yield_every
    IN
    /\ r.pc \in {"spin_check", "spin_yield"} =>
         /\ config.spin_enabled /\ config.spin_loops > 0
         /\ Len(r.reads) <= config.spin_loops
    /\ LastIs("spin_wait") =>
         LET n == Len(Last.reads) IN
         /\ (~config.spin_enabled \/ config.spin_loops = 0) =>
              Last.result = <<"None">> /\ n = 0 /\ Last.yields = {}
         /\ (config.spin_enabled /\ config.spin_loops > 0) =>
              /\ n >= 1 /\ n <= config.spin_loops
              /\ \A k \in 1..(n - 1) : Last.reads[k] <= Last.from
              /\ IF Last.reads[n] > Last.from
                 THEN Last.result = <<"Some", Last.reads[n]>>
                 ELSE Last.result = <<"None">> /\ n = config.spin_loops
              /\ Last.yields =
                   {i \in 0..(SpinIterationsDone(Last) - 1) : y # 0 /\ i % y = y - 1}
              /\ y = 0 => Last.yields = {}

\* spin_wait returned Some at its second reading, having yielded after the
\* first iteration.
C26_Witness ==
    /\ LastIs("spin_wait")
    /\ Last.result[1] = "Some"
    /\ Len(Last.reads) = 2
    /\ Last.yields = {0}

\* The call that replaced the state word of construction: the first call to
\* return on a fresh generator (no later call publishes (0,0) again).
FirstOnFresh(e) == e.replaced = State_new(0, 0)

\* C27: the first generate() call on a freshly constructed generator returns
\* an ID whose timestamp is the clock reading of that call and whose
\* sequence is 0, whatever the clock reads, 0 included.
C27_FirstIdSequenceZero ==
    \A k \in 1..Len(issued) :
        FirstOnFresh(issued[k]) =>
            /\ issued[k].timestamp = issued[k].now
            /\ issued[k].sequence = 0
            /\ issued[k].id = assemble_id(issued[k].gen, issued[k].now, 0)

\* The log entries of generator g.
IssuedBy(g) == {k \in 1..Len(issued) : issued[k].gen = g}

\* The timestamp generator g held when the behaviour began: 0 when fresh,
\* otherwise the millisecond its earlier calls had read and partly used.
StartTimestamp(g) ==
    IF IssuedBy(g) = {}
    THEN State_timestamp(state[g])
    ELSE State_timestamp(
           issued[CHOOSE k \in IssuedBy(g) : \A j \in IssuedBy(g) : k <= j].replaced)

\* The clock readings with which calls on g returned.
ReadingsOf(g) == {issued[k].now : k \in IssuedBy(g)}

\* C28: the published timestamp never runs ahead of the clock: in every
\* state it is the one the generator began with (0 when fresh) or a clock
\* value that a generate() call on this generator read, and every change of
\* it installs the reading the publishing call took from the clock; a call
\* holds as `now` only what it read from its generator's clock.
C28_TimestampWasRead ==
    /\ [](\A g \in Gens :
            \/ State_timestamp(state[g]) = StartTimestamp(g)
            \/ State_timestamp(state[g]) \in ReadingsOf(g))
    /\ [][\A t \in Threads :
            /\ th'[t].now # th[t].now =>
                 \/ th'[t].now = clock[th[t].gen]
                 \/ th'[t].pc = "idle"
            /\ (CasBy(t) /\ State_timestamp(state'[th[t].gen])
                               # State_timestamp(state[th[t].gen])) =>
                 State_timestamp(state'[th[t].gen]) = th[t].now]_vars

\* A call met the exhausted sequence of the millisecond the generator began
\* with, and the state now holds the later clock reading it returned with.
C28_Witness ==
    \E k \in 1..Len(issued) :
        /\ issued[k].exhausted >= 0
        /\ issued[k].by_claim
        /\ State_timestamp(state[issued[k].gen]) = issued[k].now
        /\ issued[k].now = issued[k].exhausted + 1
        /\ issued[k].now # StartTimestamp(issued[k].gen)

\* The log entries of generator g that carry timestamp T.
IssuedWith(g, T) == {k \in IssuedBy(g) : issued[k].timestamp = T}

\* Timestamps of g that a logged call claimed (now > current.timestamp()).
ClaimedTimestamps(g) == {issued[k].timestamp : k \in {j \in IssuedBy(g) : issued[j].by_claim}}

\* C29: for every timestamp T claimed by a clock-advanced transition, the
\* IDs issued with T carry the sequences 0, 1, ..., k with k at most
\* max_sequence_id, each once and in the order of issue (the n-th ID issued
\* with T, counting from 0, has sequence n, and the claim is the first); in
\* a millisecond the generator had begun with, the sequences go on from the
\* one it held, one by one, up to max_sequence_id at most: no value is
\* passed over or used up by a CAS that failed.
C29_SequencesContiguous ==
    \A g \in Gens :
        /\ \A T \in ClaimedTimestamps(g) :
             \A k \in IssuedWith(g, T) :
                 /\ issued[k].sequence = Cardinality({j \in IssuedWith(g, T) : j < k})
                 /\ issued[k].by_claim <=> issued[k].sequence = 0
                 /\ issued[k].sequence <= max_sequence_id(config)
        /\ \A k \in IssuedBy(g) :
             /\ issued[k].sequence <= max_sequence_id(config)
             /\ ~issued[k].by_claim =>
                  /\ issued[k].timestamp = State_timestamp(issued[k].replaced)
                  /\ issued[k].sequence = State_sequence(issued[k].replaced) + 1
                  /\ \A j \in IssuedBy(g) :
                       (j < k /\ \A i \in IssuedBy(g) : ~(j < i /\ i < k)) =>
                           /\ issued[j].timestamp = issued[k].timestamp
                           /\ issued[j].sequence + 1 = issued[k].sequence

\* A thread claimed a millisecond while another call was under way, and
\* that call was issued the next sequence of the same millisecond.
C29_Witness ==
    \E i, j \in 1..Len(issued) :
        /\ i < j
        /\ issued[i].by_claim
        /\ issued[i].timestamp > 0
        /\ issued[j].gen = issued[i].gen
        /\ issued[j].thread # issued[i].thread
        /\ issued[j].began < i
        /\ issued[j].timestamp = issued[i].timestamp
        /\ issued[j].sequence = 1

\* a + b on u64 values, with the carry out of 64 bits.
U64Sum(a, b) ==
    LET s4 == a[4] + b[4]
        s3 == a[3] + b[3] + (s4 \div Limb)
        s2 == a[2] + b[2] + (s3 \div Limb)
        s1 == a[1] + b[1] + (s2 \div Limb)
    IN [carry |-> s1 >= Limb,
        val |-> <<s1 % Limb, s2 % Limb, s3 % Limb, s4 % Limb>>]

\* C30: for every epoch the builder accepts, one later than the wall clock
\* included, the clock reading of generate() is the non-negative difference
\* wall_clock_ms - epoch: the call does not panic, and the reading added to
\* the epoch gives the wall clock without leaving 64 bits.
C30_EpochDifferenceNeverUnderflows ==
    LastIs("now_ms") =>
        /\ ~Last.panicked
        /\ ~U64Sum(Last.value, Last.epoch).carry
        /\ U64Sum(Last.value, Last.epoch).val = Last.wall

\* C31: for every issued ID the timestamp extracted from the ID is the
\* timestamp of the state its CAS published (the 42-bit mask of the assembly
\* drops no set bit of it), and the IDs of one generator are ordered as the
\* states published with them, for every clock reading the state word holds.
C31_IdTimestampIsStateTimestamp ==
    /\ \A k \in 1..Len(issued) :
         timestamp_u64(config, issued[k].id) = State_timestamp_u64(issued[k].state)
    /\ \A i, j \in 1..Len(issued) :
         u64_less(issued[i].state, issued[j].state) =>
             u64_less(issued[i].id, issued[j].id)

\* C32: for every node_bits in 6..16 (6 included, where max_sequence_id is
\* 65535 and fills the 16-bit field), an increment of the sequence stays
\* within 16 bits and within max_sequence_id and leaves the timestamp bits of
\* the packed word as they were: the word grows by exactly one; the packed
\* timestamp changes only in the clock-advanced transition.
C32_IncrementStaysInSequenceField ==
    [][\A g \in Gens :
        state'[g] # state[g] =>
            LET e == issued'[Len(issued')] IN
            /\ Len(issued') = Len(issued) + 1 /\ e.gen = g
            /\ IF e.by_claim
               THEN /\ State_timestamp(state'[g]) > State_timestamp(state[g])
                    /\ State_sequence(state'[g]) = 0
               ELSE /\ State_timestamp(state'[g]) = State_timestamp(state[g])
                    /\ State_sequence(state'[g]) = State_sequence(state[g]) + 1
                    /\ State_sequence(state'[g]) <= max_sequence_id(config)
                    /\ State_sequence(state'[g]) <= 65535
                    /\ state'[g] = state[g] + 1]_vars

\* With node_bits = 6 the sequence was incremented to 65535, the whole
\* 16-bit field, and the timestamp in the state word is still the one it had.
C32_Witness ==
    /\ config.node_bits = MIN_NODE_BITS
    /\ \E k \in 1..Len(issued) :
         /\ ~issued[k].by_claim
         /\ issued[k].sequence = 65535
         /\ state[issued[k].gen] = State_new(issued[k].timestamp, 65535)
         /\ State_timestamp(state[issued[k].gen]) = State_timestamp(issued[k].replaced)

\* C33: in the generator with two atomics, concurrent generate() calls on
\* one instance never return the same ID, whatever the interleaving.
C33_LegacyIdsDistinct ==
    \A i, j \in 1..Len(issued) :
        (i # j /\ issued[i].gen = issued[j].gen) => issued[i].id # issued[j].id

\* A step in which the caller comes back from an extractor operation.
ExtractorReturns ==
    /\ th'[SetupThread] # th[SetupThread]
    /\ HasLast(th'[SetupThread])
    /\ th'[SetupThread].last.op \in ExtractorOps

\* C34: generate() on one generator changes that generator's state word and
\* nothing else of any generator: node_id and the configuration stay as they
\* are, a state word changes only in the step in which a call on that very
\* generator returns, every step of a call leaves the other generator's
\* state word alone, and the extractor operations change no state word (and
\* issue nothing).
C34_GenerateTouchesOwnStateOnly ==
    [][/\ config' = config
       /\ node_id' = node_id
       /\ \A g \in Gens :
            state'[g] # state[g] =>
                /\ Len(issued') = Len(issued) + 1
                /\ issued'[Len(issued')].gen = g
                /\ th[issued'[Len(issued')].thread].pc \in TryPcs
                /\ th[issued'[Len(issued')].thread].gen = g
                /\ \A h \in Gens \ {g} : state'[h] = state[h]
       /\ ExtractorReturns => (state' = state /\ issued' = issued /\ clock' = clock)]_vars

\* Both generators have issued an ID, their state words differ, and the
\* caller has just taken apart an ID of the first one.
C34_Witness ==
    /\ \E i, j \in 1..Len(issued) : issued[i].gen = 1 /\ issued[j].gen = 2
    /\ state[1] # state[2]
    /\ state[2] # State_new(0, 0)
    /\ HasLast(th[SetupThread])
    /\ Last.op = "decompose"
    /\ \E k \in 1..Len(issued) : issued[k].gen = 1 /\ issued[k].id = Last.id

\* The IDs generator g returned, in the order of its calls.
IdsOf(g) ==
    LET F[k \in 0..Len(issued)] ==
          IF k = 0 THEN <<>>
          ELSE IF issued[k].gen = g THEN Append(F[k - 1], issued[k].id) ELSE F[k - 1]
    IN F[Len(issued)]

\* The two generators have returned the same IDs call for call, as far as
\* both have been called.
SameIdSequences ==
    \A n \in 1..Len(issued) :
        (n <= Len(IdsOf(1)) /\ n <= Len(IdsOf(2))) => IdsOf(1)[n] = IdsOf(2)[n]

BitOf(x, k) == (x[4 - (k \div 16)] \div Pow2(k % 16)) % 2

BitOf16(n, k) == (n \div Pow2(k)) % 2

\* C36: for every configuration and every 64-bit id, decompose(id) is
\* (timestamp(id), node(id), sequence(id)), and each component is its bit
\* field of the id: the timestamp bits 22..63, the node the node_bits bits
\* above the sequence, the sequence the low 22 - node_bits bits.
C36_DecomposeIsTheThreeFields ==
    LastIs("extract") =>
      LET r == Last
          nb == config.node_bits
          sb == TOTAL_NODE_AND_SEQUENCE_BITS - nb
      IN /\ r.decompose = <<r.timestamp, r.node, r.sequence>>
         /\ \A k \in 0..63 :
              BitOf(r.timestamp, k) = IF k < TIMESTAMP_BITS
                                      THEN BitOf(r.id, k + TOTAL_NODE_AND_SEQUENCE_BITS)
                                      ELSE 0
         /\ r.node \in 0..(Pow2(16) - 1)
         /\ \A k \in 0..15 :
              BitOf16(r.node, k) = IF k < nb THEN BitOf(r.id, sb + k) ELSE 0
         /\ r.sequence \in 0..(Pow2(16) - 1)
         /\ \A k \in 0..15 :
              BitOf16(r.sequence, k) = IF k < sb THEN BitOf(r.id, k) ELSE 0

\* The id 0xFFFFFFFF0040FFFF was taken apart by an extractor with the
\* widest node field: the node field straddles two limbs of the id.
C36_Witness ==
    /\ LastIs("extract")
    /\ config.node_bits = MAX_NODE_BITS
    /\ Last.id = <<65535, 65535, 64, 65535>>
    /\ Last.decompose = <<<<0, 1023, 65535, 64513>>, 1023, 63>>

\* Lexicographic order of (timestamp, sequence) pairs.
WidePairLess(a_ts, a_s, b_ts, b_s) ==
    \/ u64_less(a_ts, b_ts)
    \/ a_ts = b_ts /\ a_s < b_s

\* C37: State packing round-trips: for every ts < 2^48 and 16-bit s,
\* State::new(ts, s).timestamp() is ts and .sequence() is s;
\* State::from_raw(x).raw() is x; State::new(0, 0).raw() is 0; the numeric
\* order of raw() is the lexicographic order of (timestamp, sequence).
C37_StatePackingRoundTrips ==
    /\ LastIs("new") =>
         /\ Last.got_timestamp = Last.timestamp
         /\ Last.got_sequence = Last.sequence
         /\ (Last.timestamp = u64_zero /\ Last.sequence = 0) => Last.raw = u64_zero
    /\ LastIs("from_raw") => Last.raw = Last.x
    /\ LastIs("compare") =>
         /\ Last.raw_less = WidePairLess(Last.a_timestamp, Last.a_sequence,
                                         Last.b_timestamp, Last.b_sequence)
         /\ Last.raw_equal = (/\ Last.a_timestamp = Last.b_timestamp
                              /\ Last.a_sequence = Last.b_sequence)

\* The words of (1, 65535) and (2^48 - 1, 0) were compared: the smaller
\* timestamp decides although its sequence is the larger one.
C37_Witness ==
    /\ LastIs("compare")
    /\ Last.a_timestamp = <<0, 0, 0, 1>> /\ Last.a_sequence = 65535
    /\ Last.b_timestamp = <<0, 65535, 65535, 65535>> /\ Last.b_sequence = 0
    /\ Last.raw_less
====
